---------------------------- MODULE Spec2Model ----------------------------
(***************************************************************************)
(* pytest-multihost: the domain/host matcher (pytest_multihost/config.py)  *)
(* and the remote command life cycle (pytest_multihost/transport.py,       *)
(* pytest_multihost/host.py).                                              *)
(***************************************************************************)
EXTENDS Integers, Sequences, FiniteSets, TLC

(***************************************************************************)
(* Bounds of the model.                                                    *)
(***************************************************************************)
MaxDomains == 2      \* configured domains in a topology
MaxHosts == 2        \* configured hosts in a domain
MaxDescr == 2        \* descriptors in one filter request
MaxCount == 2        \* largest host count a descriptor asks for
MaxCmds == 2         \* commands started on the host
MaxLines == 1        \* lines a remote process writes to its two streams
PipeCap == 1         \* lines a stream holds before the writer blocks
MaxDrain == 3        \* lines the process of the draining scenario writes
MaxTransports == 2   \* Transport objects constructed for one host
MaxNameLen == 3      \* characters in a configured host name
MaxArgLen == 3       \* characters in a command argument
MaxFilterCalls == 2  \* filter calls made on one Config

Roles == {"master", "replica"}
DomainTypes == {"default", "B"}
\* A descriptor dict that has no 'type' key.
NoType == "<no type key>"

VARIABLES
    domains,        \* Config.domains: sequence of Domain objects
    descriptions,   \* the descriptor objects of the last filter call (mutable dicts)
    outcome,        \* how the last filter call ended: "none", "ok" or the exception
    loaded,         \* history: the topology as loaded by Config.__init__
    domains0,       \* history: Config.domains when the last filter call began
    descriptions0,  \* history: the descriptors as passed to the last filter call
    n_filter        \* history: the filter calls made so far

filterVars ==
    <<domains, descriptions, outcome, loaded, domains0, descriptions0, n_filter>>

VARIABLES
    commands,       \* the Command objects created so far, in creation order
    remote,         \* per command: its remote shell process and the two pipes
    threads,        \* per command: the stdout and the stderr reader thread
    main,           \* the test's thread: idle, or where it stands inside wait()
    result,         \* how the last call of the test ended (return or exception)
    held,           \* the commands the test has a reference to
    fifo            \* the named pipe on the remote side (test_background)

cmdVars == <<commands, remote, threads, main, result, held, fifo>>

VARIABLES
    ahost,           \* a Host: its credentials and its memoized _transport
    transport_class, \* BaseHost.transport_class: "paramiko" or "openssh"
    n_built,         \* the number of Transport objects constructed so far
    last,            \* how the last run_command on the host ended
    since            \* history: the first Transport host.transport returned
                     \* since the last reset_connection, and the credentials
                     \* of the host at that access

hostVars == <<ahost, transport_class, n_built, last, since>>

\* No host is in use.
IdleHost ==
    /\ ahost = <<>>
    /\ transport_class = "none"
    /\ n_built = 0
    /\ last = <<>>
    /\ since = <<>>

VARIABLES
    conf,           \* the configuration mapping of the caller (a mutable dict)
    conf0,          \* history: the mapping as the caller built it
    load,           \* how Config.from_dict(conf) ended
    config,         \* the Config object from_dict returned, if any
    filtered,       \* how config.filter(...) ended
    exported,       \* config.to_dict(), and the Config it was taken from
    reloaded        \* how Config.from_dict(exported) ended, and its Config

loadVars == <<conf, conf0, load, config, filtered, exported, reloaded>>

\* No configuration mapping is in use.
IdleLoad ==
    /\ conf = <<>>
    /\ conf0 = <<>>
    /\ load = <<>>
    /\ config = <<>>
    /\ filtered = <<>>
    /\ exported = <<>>
    /\ reloaded = <<>>

VARIABLES
    lookup          \* the last lookup made on the Config, and its answer

lookupVars == <<lookup>>

\* No lookup is made.
IdleLookup == lookup = <<>>

VARIABLES
    arg,            \* a string to be passed to a command: an argument of argv
    quoted,         \* what run_command writes to the shell for it
    words           \* the words the remote shell reads from that

quoteVars == <<arg, quoted, words>>

\* Nothing is quoted.
IdleQuote ==
    /\ arg = <<>>
    /\ quoted = <<>>
    /\ words = <<>>

VARIABLES
    strategy,       \* the transport class whose file operations are used
    fs,             \* the remote directory and the files in it
    fileop          \* the last file operation and how it ended

fileVars == <<strategy, fs, fileop>>

\* No file operation is in use.
IdleFiles ==
    /\ strategy = "none"
    /\ fs = [dir |-> FALSE]
    /\ fileop = [op |-> "none"]

VARIABLES
    shcall,         \* the run_command call that is writing: its arguments, the
                    \* host's attributes it reads, and the statement reached
    shstdin         \* the stdin of the shell it started: what was written to
                    \* it, and what was written when it was last flushed

shellVars == <<shcall, shstdin>>

\* No shell is being written to.
IdleShell ==
    /\ shcall = [pc |-> "none"]
    /\ shstdin = [written |-> <<>>, flushed |-> <<>>]

\* What the actions of one part of the program leave alone: the other parts.
nonCmdVars == <<filterVars, hostVars, loadVars, lookupVars, quoteVars, fileVars, shellVars>>
nonFilterVars == <<cmdVars, hostVars, loadVars, lookupVars, quoteVars, fileVars, shellVars>>
nonHostVars == <<filterVars, cmdVars, loadVars, lookupVars, quoteVars, fileVars, shellVars>>
nonLoadVars == <<filterVars, cmdVars, hostVars, lookupVars, quoteVars, fileVars, shellVars>>
nonLookupVars == <<filterVars, cmdVars, hostVars, loadVars, quoteVars, fileVars, shellVars>>
nonQuoteVars == <<filterVars, cmdVars, hostVars, loadVars, lookupVars, fileVars, shellVars>>
nonFileVars == <<filterVars, cmdVars, hostVars, loadVars, lookupVars, quoteVars, shellVars>>
nonShellVars == <<filterVars, cmdVars, hostVars, loadVars, lookupVars, quoteVars, fileVars>>
vars == <<filterVars, cmdVars, hostVars, loadVars, lookupVars, quoteVars, fileVars, shellVars>>

\* The parts of the program that the scenarios of the matcher and of the
\* commands do not use.
IdleRest ==
    IdleHost /\ IdleLoad /\ IdleLookup /\ IdleQuote /\ IdleFiles /\ IdleShell

(***************************************************************************)
(* Data: hosts, domains, descriptors.                                      *)
(***************************************************************************)
\* BaseHost.__init__: a host of domain d, the p-th of its configuration.
Host(d, p, role) == [name |-> <<d, p>>, role |-> role]

\* Domain.__init__ / Domain.from_dict: name, type and hosts in configuration order.
Domain(d, type, roleSeq) ==
    [name |-> d, type |-> type,
     hosts |-> [p \in 1..Len(roleSeq) |-> Host(d, p, roleSeq[p])]]

RoleSeqs == UNION {[1..n -> Roles] : n \in 0..MaxHosts}

\* Config.__init__: the topologies a configuration can describe.
Topologies ==
    UNION {
        {[d \in 1..n |-> Domain(d, ts[d], rs[d])] :
            ts \in [1..n -> DomainTypes], rs \in [1..n -> RoleSeqs]}
        : n \in 0..MaxDomains}

\* The 'hosts' mapping of a descriptor: role -> number of hosts wanted.
HostCounts == UNION {[R -> 0..MaxCount] : R \in SUBSET Roles}

Descriptors ==
    {[type |-> t, hosts |-> h] : t \in DomainTypes \cup {NoType}, h \in HostCounts}

Requests == UNION {[1..n -> Descriptors] : n \in 0..MaxDescr}

(***************************************************************************)
(* Domain.fits, Domain.filter, Config.filter                               *)
(***************************************************************************)
\* description.get('type', 'default')
get_type(description) ==
    IF description.type = NoType THEN "default" ELSE description.type

\* host_counts.get(role, 0)
get_count(host_counts, role) ==
    IF role \in DOMAIN host_counts THEN host_counts[role] ELSE 0

hosts_by_role(domain, role) ==
    SelectSeq(domain.hosts, LAMBDA h : h.role = role)

\* A fits() that lets a role pass when the domain has no host of it at all.
fits_skips_unknown_role(domain, description) ==
    IF domain.type # get_type(description)
    THEN FALSE
    ELSE \A role \in DOMAIN description.hosts :
            \/ hosts_by_role(domain, role) = <<>>
            \/ ~(Len(hosts_by_role(domain, role)) < description.hosts[role])

\* A fits() that wants one host more of every role than the descriptor asks.
fits_needs_spare(domain, description) ==
    IF domain.type # get_type(description)
    THEN FALSE
    ELSE \A role \in DOMAIN description.hosts :
            ~(Len(hosts_by_role(domain, role)) <= description.hosts[role])

fits(domain, description) ==
    IF domain.type # get_type(description)
    THEN FALSE
    ELSE \A role \in DOMAIN description.hosts :
            ~(Len(hosts_by_role(domain, role)) < description.hosts[role])

\* host_counts[host.role] -= 1
decrement(host_counts, role) == [host_counts EXCEPT ![role] = @ - 1]

\* A test that also keeps the hosts of a role whose count is zero or absent.
wanted_or_zero(host_counts, host) == get_count(host_counts, host.role) >= 0

\* host_counts.get(host.role, 0) > 0
wanted(host_counts, host) == get_count(host_counts, host.role) > 0

\* Kept hosts pushed at the front instead of the end.
new_hosts_prepend(new_hosts, host) == <<host>> \o new_hosts

\* A kept host put on the list twice.
new_hosts_append_twice(new_hosts, host) == new_hosts \o <<host, host>>

\* new_hosts.append(host)
new_hosts_append(new_hosts, host) == Append(new_hosts, host)

\* The loop of Domain.filter over list(self.hosts): keeps a host while the
\* count of its role is positive and decrements the caller's mapping.
RECURSIVE filter_hosts(_, _, _)
filter_hosts(hosts, new_hosts, host_counts) ==
    IF hosts = <<>>
    THEN [new_hosts |-> new_hosts, host_counts |-> host_counts]
    ELSE LET host == Head(hosts) IN
         IF wanted(host_counts, host)
         THEN filter_hosts(Tail(hosts), new_hosts_append(new_hosts, host),
                           decrement(host_counts, host.role))
         ELSE filter_hosts(Tail(hosts), new_hosts, host_counts)

\* Domain.filter(host_counts): the domain and the mapping after the call, and
\* the exception it raised ("none" when it returned).
Domain_filter(domain, host_counts) ==
    LET r == filter_hosts(domain.hosts, <<>>, host_counts)
        short == \E role \in DOMAIN r.host_counts : r.host_counts[role] > 0
    IN  [exc |-> IF short THEN "ValueError" ELSE "none",
         domain |-> IF short THEN domain ELSE [domain EXCEPT !.hosts = r.new_hosts],
         host_counts |-> r.host_counts]

\* A duplicate test on the raw 'type' entries, a missing key not read as "default".
duplicate_raw_types(descs) ==
    Len(descs) # Cardinality({descs[k].type : k \in 1..Len(descs)})

\* The duplicate-type test that opens Config.filter.
duplicate_types(descs) ==
    Len(descs) # Cardinality({get_type(descs[k]) : k \in 1..Len(descs)})

\* A removal that takes the k-th domain and every domain before it.
RemoveUpTo(s, k) == SubSeq(s, k + 1, Len(s))

\* self.domains.remove(domain), domain being the k-th of the list
RemoveAt(s, k) == SubSeq(s, 1, k - 1) \o SubSeq(s, k + 1, Len(s))

\* Matched domains kept in configuration order instead of descriptor order.
new_domains_by_name(new_domains, domain) ==
    LET before == SelectSeq(new_domains, LAMBDA d : d.name < domain.name)
        after == SelectSeq(new_domains, LAMBDA d : ~(d.name < domain.name))
    IN  before \o <<domain>> \o after

\* new_domains.append(domain)
new_domains_append(new_domains, domain) == Append(new_domains, domain)

\* A scan that takes the fitting domain with the fewest hosts, the earliest
\* of those.
best_fit(doms, description) ==
    LET fitting == {k \in 1..Len(doms) : fits(doms[k], description)} IN
    IF fitting = {} THEN 0
    ELSE CHOOSE k \in fitting :
            \A j \in fitting :
                \/ Len(doms[k].hosts) < Len(doms[j].hosts)
                \/ Len(doms[k].hosts) = Len(doms[j].hosts) /\ k <= j

\* for domain in list(self.domains): if domain.fits(description): ... break
\* The place in self.domains of the domain the scan stops at, 0 when the
\* scan ends without a break (the else branch of the for).
first_fit(doms, description) ==
    LET fitting == {k \in 1..Len(doms) : fits(doms[k], description)} IN
    IF fitting = {} THEN 0
    ELSE CHOOSE k \in fitting : \A j \in fitting : k <= j

\* The descriptor loop of Config.filter from descriptor i on.  doms is
\* self.domains (the scan pool), descs the descriptor objects.
RECURSIVE filter_loop(_, _, _, _)
filter_loop(i, doms, new_domains, descs) ==
    IF i > Len(descs)
    THEN [exc |-> "none", i |-> 0, domains |-> new_domains, descriptions |-> descs]
    ELSE LET k == first_fit(doms, descs[i]) IN
         IF k = 0
         THEN [exc |-> "FilterError", i |-> i, domains |-> doms,
               descriptions |-> descs]
         ELSE LET f == Domain_filter(doms[k], descs[i].hosts)
                  descs1 == [descs EXCEPT ![i].hosts = f.host_counts]
              IN  IF f.exc # "none"
                  THEN [exc |-> f.exc, i |-> i, domains |-> doms,
                        descriptions |-> descs1]
                  ELSE filter_loop(i + 1, RemoveAt(doms, k),
                                   new_domains_append(new_domains, f.domain),
                                   descs1)

\* A Config.filter that matches first and tests for duplicate types last.
Config_filter_checks_late(doms, descs) ==
    LET r == filter_loop(1, doms, <<>>, descs) IN
    IF duplicate_types(descs)
    THEN [exc |-> "ValueError", i |-> 0, domains |-> r.domains,
          descriptions |-> r.descriptions]
    ELSE r

\* Config.filter(descriptions)
Config_filter(doms, descs) ==
    IF duplicate_types(descs)
    THEN [exc |-> "ValueError", i |-> 0, domains |-> doms, descriptions |-> descs]
    ELSE filter_loop(1, doms, <<>>, descs)

(***************************************************************************)
(* Commands: transport.Command / transport.SSHCommand, BaseHost.run_command *)
(***************************************************************************)
\* An attribute that is None or unset is <<>>, a set one is <<value>>.
None == <<>>
Some(x) == <<x>>

\* The truth value Python gives an optional string: None and '' are false.
truthy(v) == v # None /\ v # Some("")

\* The raiseonerr argument of wait() left at its default (transport.DEFAULT).
DEFAULT == <<>>

ExitStatuses == {0, 1}
StreamNames == {"out", "err"}

\* What the test runs: any command, and the two ends of test_background.
Argvs == {"sh", "cat fifo", "cat > fifo"}
FifoText == <<"expected value", 0>>

\* An _start_pipe_thread that adds only the reader of stdout to
\* running_threads.
registered_stdout_only(collect_output) ==
    IF collect_output THEN {"out"} ELSE {}

\* SSHCommand.__init__: running_threads is an empty set, and with
\* collect_output each of the two _start_pipe_thread calls adds its thread.
registered(collect_output) == IF collect_output THEN StreamNames ELSE {}

\* Command.__init__ and SSHCommand.__init__: the object start_shell returns.
\* n_close, n_join and n_recv count the calls of stdin.close(), Thread.join()
\* and recv_exit_status() made for the command, n_raised the
\* CalledProcessErrors raised for it.
SSHCommand(argv) ==
    [argv |-> argv, returncode |-> None, _done |-> FALSE, raiseonerr |-> TRUE,
     stdin |-> "open", running_threads |-> registered(TRUE),
     _stdout_lines |-> <<>>, _stderr_lines |-> <<>>,
     stdout_bytes |-> None, stderr_bytes |-> None,
     n_close |-> 0, n_join |-> 0, n_recv |-> 0, n_raised |-> 0]

\* SSHCommand.__init__: self._ssh.invoke_shell() starts the remote shell.
\* wrote_out and wrote_err record what the process has written so far.
invoke_shell ==
    [alive |-> TRUE, status |-> None, out |-> <<>>, err |-> <<>>,
     written |-> 0, wrote_out |-> <<>>, wrote_err |-> <<>>]

\* An SSHCommand.__init__ that starts the reader of stdout only.
start_stdout_thread_only ==
    [t \in StreamNames |-> IF t = "out" THEN "running" ELSE "unstarted"]

\* SSHCommand._start_pipe_thread, once per stream.
start_pipe_threads == [t \in StreamNames |-> "running"]

Idle == [pc |-> "idle", cmd |-> 0, raiseonerr |-> FALSE, joining |-> "none"]

\* A call of the test: what was called on which command with which
\* arguments, and how it ended ("pending" while it has not returned).  code
\* is wait()'s return value or the exception's returncode, argv the
\* exception's cmd, was_done the command's _done flag when the call began.
Call(op, c, raiseonerr, bg) ==
    [op |-> op, cmd |-> c, raiseonerr |-> raiseonerr, bg |-> bg,
     exc |-> "pending", code |-> None, argv |-> "none", was_done |-> FALSE]

NoResult == [Call("none", 0, DEFAULT, FALSE) EXCEPT !.exc = "none"]

\* A wait() that never takes a command for done.
is_never_done(command) == FALSE

\* Command.wait: if self._done
is_done(command) == command._done

\* A wait() that raises on every exit status, zero included.
raises_always(raiseonerr, returncode) == raiseonerr

\* Command.wait: if raiseonerr and self.returncode
raises(raiseonerr, returncode) == raiseonerr /\ returncode # Some(0)

\* A with-block exit that only waits when asked to raise.
exit_waits_if_raising(command) == command.raiseonerr

\* Command.__exit__ calls self.wait unconditionally.
exit_waits(command) == TRUE

\* A run_command that waits whatever bg is.
never_in_background(bg) == FALSE

\* BaseHost.run_command: if not bg: command.wait()
in_background(bg) == bg

\* Command.wait up to its first blocking point: the raiseonerr default, the
\* _done test, and the stdin.close() that opens SSHCommand._end_process.
\* cmds is the command list as the calling handler has left it, call the
\* call of the test that led here.
wait_begin(cmds, c, raiseonerr, call) ==
    LET r == IF raiseonerr = DEFAULT THEN cmds[c].raiseonerr ELSE raiseonerr[1]
        began == [call EXCEPT !.was_done = cmds[c]._done]
    IN  IF is_done(cmds[c])
        THEN /\ commands' = cmds
             /\ main' = Idle
             /\ result' = [began EXCEPT !.exc = "none",
                                        !.code = cmds[c].returncode]
        ELSE /\ commands' = [cmds EXCEPT ![c].stdin = "closed",
                                         ![c].n_close = @ + 1]
             /\ main' = [pc |-> "join", cmd |-> c, raiseonerr |-> r,
                         joining |-> "none"]
             /\ result' = began

\* BaseHost.run_command(argv, raiseonerr=..., bg=...): start_shell, the writes
\* to stdin, command.raiseonerr = raiseonerr, and wait() unless bg.
run_command(argv, raiseonerr, bg) ==
    /\ main.pc = "idle"
    /\ Len(commands) < MaxCmds
    /\ LET c == Len(commands) + 1
           cmds == Append(commands,
                          [SSHCommand(argv) EXCEPT !.raiseonerr = raiseonerr])
           call == Call("run_command", c, Some(raiseonerr), bg)
       IN  /\ remote' = Append(remote, invoke_shell)
           /\ threads' = Append(threads, start_pipe_threads)
           /\ IF in_background(bg)
              THEN /\ commands' = cmds
                   /\ main' = Idle
                   /\ result' = [call EXCEPT !.exc = "none"]
                   /\ held' = held \cup {c}
              ELSE /\ wait_begin(cmds, c, DEFAULT, call)
                   /\ UNCHANGED held
    /\ UNCHANGED <<fifo, nonCmdVars>>

\* The test calls command.wait() or command.wait(raiseonerr=...).
wait(c, raiseonerr) ==
    /\ main.pc = "idle"
    /\ c \in held
    /\ wait_begin(commands, c, raiseonerr, Call("wait", c, raiseonerr, FALSE))
    /\ UNCHANGED <<remote, threads, held, fifo, nonCmdVars>>

\* The test assigns command.raiseonerr.
set_raiseonerr(c, b) ==
    /\ main.pc = "idle"
    /\ c \in held
    /\ commands[c].raiseonerr # b
    /\ commands' = [commands EXCEPT ![c].raiseonerr = b]
    /\ UNCHANGED <<remote, threads, main, result, held, fifo, nonCmdVars>>

\* The test leaves a with-block on the command (Command.__enter__ returned
\* self and changed nothing): Command.__exit__ runs
\* self.wait(raiseonerr=self.raiseonerr).
exit(c) ==
    /\ main.pc = "idle"
    /\ c \in held
    /\ LET call == Call("exit", c, Some(commands[c].raiseonerr), FALSE) IN
       IF exit_waits(commands[c])
       THEN wait_begin(commands, c, Some(commands[c].raiseonerr), call)
       ELSE /\ result' = [call EXCEPT !.exc = "none",
                                      !.was_done = commands[c]._done]
            /\ UNCHANGED <<commands, main>>
    /\ UNCHANGED <<remote, threads, held, fifo, nonCmdVars>>

\* SSHCommand._end_process: self.running_threads.pop(), then .join() blocks.
join_pop ==
    /\ main.pc = "join"
    /\ commands[main.cmd].running_threads # {}
    /\ \E t \in commands[main.cmd].running_threads :
        /\ commands' = [commands EXCEPT ![main.cmd].running_threads = @ \ {t}]
        /\ main' = [main EXCEPT !.pc = "joining", !.joining = t]
    /\ UNCHANGED <<remote, threads, result, held, fifo, nonCmdVars>>

\* A join that gives up waiting: it returns whether or not the thread has
\* ended.
join_return_timeout ==
    /\ main.pc = "joining"
    /\ commands' = [commands EXCEPT ![main.cmd].n_join = @ + 1]
    /\ main' = [main EXCEPT !.pc = "join", !.joining = "none"]
    /\ UNCHANGED <<remote, threads, result, held, fifo, nonCmdVars>>

\* Thread.join() returns once the reader thread has ended.
join_return ==
    /\ main.pc = "joining"
    /\ threads[main.cmd][main.joining] = "ended"
    /\ commands' = [commands EXCEPT ![main.cmd].n_join = @ + 1]
    /\ main' = [main EXCEPT !.pc = "join", !.joining = "none"]
    /\ UNCHANGED <<remote, threads, result, held, fifo, nonCmdVars>>

\* An _end_process that joins the line lists without waiting for the
\* reader threads.
join_lines_unjoined ==
    /\ main.pc = "join"
    /\ commands' = [commands EXCEPT
            ![main.cmd].stdout_bytes = Some(commands[main.cmd]._stdout_lines),
            ![main.cmd].stderr_bytes = Some(commands[main.cmd]._stderr_lines)]
    /\ main' = [main EXCEPT !.pc = "recv"]
    /\ UNCHANGED <<remote, threads, result, held, fifo, nonCmdVars>>

\* SSHCommand._end_process: b''.join of the two line lists, after the loop.
join_lines ==
    /\ main.pc = "join"
    /\ commands[main.cmd].running_threads = {}
    /\ commands' = [commands EXCEPT
            ![main.cmd].stdout_bytes = Some(commands[main.cmd]._stdout_lines),
            ![main.cmd].stderr_bytes = Some(commands[main.cmd]._stderr_lines)]
    /\ main' = [main EXCEPT !.pc = "recv"]
    /\ UNCHANGED <<remote, threads, result, held, fifo, nonCmdVars>>

\* A wait() that marks the command done only when it is not going to raise.
done_if_returning(raising) == ~raising

\* Command.wait: self._done = True comes before the test of the exit code.
done_before_raise(raising) == TRUE

\* SSHCommand._end_process: recv_exit_status() blocks until the process has
\* exited; then Command.wait sets _done and raises or returns.  run_command
\* returns the command when wait() returned.
wait_finish ==
    /\ main.pc = "recv"
    /\ ~remote[main.cmd].alive
    /\ LET c == main.cmd
           rc == remote[c].status
           raising == raises(main.raiseonerr, rc)
       IN  /\ commands' = [commands EXCEPT
                    ![c].returncode = rc,
                    ![c]._done = done_before_raise(raising),
                    ![c].n_recv = @ + 1,
                    ![c].n_raised = IF raising THEN @ + 1 ELSE @]
           /\ IF raising
              THEN /\ result' = [result EXCEPT !.exc = "CalledProcessError",
                                               !.code = rc,
                                               !.argv = commands[c].argv]
                   /\ UNCHANGED held
              ELSE /\ result' = [result EXCEPT !.exc = "none", !.code = rc]
                   /\ held' = IF result.op = "run_command" THEN held \cup {c}
                              ELSE held
    /\ main' = Idle
    /\ UNCHANGED <<remote, threads, fifo, nonCmdVars>>

Pipe(r, t) == IF t = "out" THEN r.out ELSE r.err

\* Reader threads that were both given the result list of stdout.
read_line_one_list(c, t) ==
    /\ threads[c][t] = "running"
    /\ Pipe(remote[c], t) # <<>>
    /\ LET line == Head(Pipe(remote[c], t)) IN
        /\ remote' = IF t = "out"
                     THEN [remote EXCEPT ![c].out = Tail(@)]
                     ELSE [remote EXCEPT ![c].err = Tail(@)]
        /\ commands' = [commands EXCEPT ![c]._stdout_lines = Append(@, line)]
    /\ UNCHANGED <<threads, main, result, held, fifo, nonCmdVars>>

\* read_stream in SSHCommand._start_pipe_thread: one line of the stream is
\* appended to the thread's result list.
read_line(c, t) ==
    /\ threads[c][t] = "running"
    /\ Pipe(remote[c], t) # <<>>
    /\ LET line == Head(Pipe(remote[c], t)) IN
        /\ remote' = IF t = "out"
                     THEN [remote EXCEPT ![c].out = Tail(@)]
                     ELSE [remote EXCEPT ![c].err = Tail(@)]
        /\ commands' = IF t = "out"
                       THEN [commands EXCEPT ![c]._stdout_lines = Append(@, line)]
                       ELSE [commands EXCEPT ![c]._stderr_lines = Append(@, line)]
    /\ UNCHANGED <<threads, main, result, held, fifo, nonCmdVars>>

\* A reader of stderr that does not notice the end of its stream.
read_eof_stdout_only(c, t) ==
    /\ t = "out"
    /\ threads[c][t] = "running"
    /\ Pipe(remote[c], t) = <<>>
    /\ ~remote[c].alive
    /\ threads' = [threads EXCEPT ![c][t] = "ended"]
    /\ UNCHANGED <<commands, remote, main, result, held, fifo,
                  nonCmdVars>>

\* read_stream: the for loop ends at end-of-stream, and with it the thread.
read_eof(c, t) ==
    /\ threads[c][t] = "running"
    /\ Pipe(remote[c], t) = <<>>
    /\ ~remote[c].alive
    /\ threads' = [threads EXCEPT ![c][t] = "ended"]
    /\ UNCHANGED <<commands, remote, main, result, held, fifo,
                  nonCmdVars>>

(***************************************************************************)
(* The remote side: the shell process behind a command.                    *)
(***************************************************************************)
remote_put(c, t, line) ==
    IF t = "out"
    THEN [remote EXCEPT ![c].out = Append(@, line), ![c].written = @ + 1,
                        ![c].wrote_out = Append(@, line)]
    ELSE [remote EXCEPT ![c].err = Append(@, line), ![c].written = @ + 1,
                        ![c].wrote_err = Append(@, line)]

\* A process that writes at most n lines writes a line to stdout or stderr;
\* it blocks on a full pipe.
remote_writes(c, t, n) ==
    /\ remote[c].alive
    /\ commands[c].argv = "sh"
    /\ remote[c].written < n
    /\ Len(Pipe(remote[c], t)) < PipeCap
    /\ remote' = remote_put(c, t, <<"line", remote[c].written + 1>>)
    /\ UNCHANGED <<commands, threads, main, result, held, fifo,
                  nonCmdVars>>

remote_write(c, t) == remote_writes(c, t, MaxLines)

\* A process exits with some status; its ends of the pipes are closed.
remote_exit(c, status) ==
    /\ remote[c].alive
    /\ commands[c].argv = "sh"
    /\ remote' = [remote EXCEPT ![c].alive = FALSE, ![c].status = Some(status)]
    /\ UNCHANGED <<commands, threads, main, result, held, fifo,
                  nonCmdVars>>

ReaderAlive ==
    \E k \in 1..Len(commands) : commands[k].argv = "cat fifo" /\ remote[k].alive

\* 'cat > fifo' with stdin_text: once a reader has the fifo open, the text is
\* written to it and the process exits with status 0.
fifo_write(c) ==
    /\ remote[c].alive
    /\ commands[c].argv = "cat > fifo"
    /\ ReaderAlive
    /\ fifo' = [fifo EXCEPT !.data = Append(@, FifoText), !.writers = @ + 1]
    /\ remote' = [remote EXCEPT ![c].alive = FALSE, ![c].status = Some(0)]
    /\ UNCHANGED <<commands, threads, main, result, held, nonCmdVars>>

\* 'cat fifo' copies a line of the fifo to its stdout.
fifo_read(c) ==
    /\ remote[c].alive
    /\ commands[c].argv = "cat fifo"
    /\ fifo.data # <<>>
    /\ Len(remote[c].out) < PipeCap
    /\ remote' = remote_put(c, "out", Head(fifo.data))
    /\ fifo' = [fifo EXCEPT !.data = Tail(@)]
    /\ UNCHANGED <<commands, threads, main, result, held, nonCmdVars>>

\* 'cat fifo' exits with status 0 at the end of the fifo: a writer has
\* written and closed, and nothing is left to copy.
fifo_eof(c) ==
    /\ remote[c].alive
    /\ commands[c].argv = "cat fifo"
    /\ fifo.writers > 0
    /\ fifo.data = <<>>
    /\ remote' = [remote EXCEPT ![c].alive = FALSE, ![c].status = Some(0)]
    /\ UNCHANGED <<commands, threads, main, result, held, fifo,
                  nonCmdVars>>

InitCmd ==
    /\ commands = <<>>
    /\ remote = <<>>
    /\ threads = <<>>
    /\ main = Idle
    /\ result = NoResult
    /\ held = {}
    /\ fifo = [data |-> <<>>, writers |-> 0]

\* No configuration is loaded and no filter call made.
IdleFilter ==
    /\ domains = <<>>
    /\ loaded = <<>>
    /\ domains0 = <<>>
    /\ descriptions = <<>>
    /\ descriptions0 = <<>>
    /\ outcome = [exc |-> "uncalled", i |-> 0]
    /\ n_filter = 0

InitCommands ==
    /\ InitCmd
    /\ IdleFilter
    /\ IdleRest

NextCommands ==
    \/ \E argv \in Argvs, raiseonerr \in BOOLEAN, bg \in BOOLEAN :
            run_command(argv, raiseonerr, bg)
    \/ \E c \in 1..MaxCmds, raiseonerr \in {DEFAULT, Some(TRUE), Some(FALSE)} :
            wait(c, raiseonerr)
    \/ \E c \in 1..MaxCmds, b \in BOOLEAN : set_raiseonerr(c, b)
    \/ \E c \in 1..MaxCmds : exit(c)
    \/ join_pop
    \/ join_return
    \/ join_lines
    \/ wait_finish
    \/ \E c \in 1..Len(commands), t \in StreamNames : read_line(c, t)
    \/ \E c \in 1..Len(commands), t \in StreamNames : read_eof(c, t)
    \/ \E c \in 1..Len(commands), t \in StreamNames : remote_write(c, t)
    \/ \E c \in 1..Len(commands), status \in ExitStatuses : remote_exit(c, status)
    \/ \E c \in 1..Len(commands) : fifo_write(c)
    \/ \E c \in 1..Len(commands) : fifo_read(c)
    \/ \E c \in 1..Len(commands) : fifo_eof(c)

SpecCommands == InitCommands /\ [][NextCommands]_vars

(***************************************************************************)
(* Draining the two streams of one command: a shell started in the         *)
(* background by run_command(..., bg=True) writes up to MaxDrain lines to  *)
(* its bounded pipes while the two reader threads copy them and the test   *)
(* waits for the command.                                                  *)
(***************************************************************************)
InitDrain ==
    /\ commands = <<SSHCommand("sh")>>
    /\ remote = <<invoke_shell>>
    /\ threads = <<start_pipe_threads>>
    /\ main = Idle
    /\ result = [Call("run_command", 1, Some(TRUE), TRUE) EXCEPT !.exc = "none"]
    /\ held = {1}
    /\ fifo = [data |-> <<>>, writers |-> 0]
    /\ IdleFilter
    /\ IdleRest

NextDrain ==
    \/ \E raiseonerr \in {DEFAULT, Some(TRUE), Some(FALSE)} : wait(1, raiseonerr)
    \/ join_pop
    \/ join_return
    \/ join_lines
    \/ wait_finish
    \/ \E t \in StreamNames : read_line(1, t)
    \/ \E t \in StreamNames : read_eof(1, t)
    \/ \E t \in StreamNames : remote_writes(1, t, MaxDrain)
    \/ \E status \in ExitStatuses : remote_exit(1, status)

SpecDrain == InitDrain /\ [][NextDrain]_vars

\* The threads of the harness are scheduled fairly: each reader thread and
\* the thread inside wait() takes its next step when it can.  Nothing is
\* assumed of the remote process or of when the test calls wait().
FairThreads ==
    /\ \A t \in StreamNames : WF_vars(read_line(1, t))
    /\ \A t \in StreamNames : WF_vars(read_eof(1, t))
    /\ WF_vars(join_pop)
    /\ WF_vars(join_return)
    /\ WF_vars(join_lines)
    /\ WF_vars(wait_finish)

SpecDrainFair == SpecDrain /\ FairThreads

(***************************************************************************)
(* The commands of an OpenSSHTransport: the constructor starts the control *)
(* master, then the test runs a command over the transport.                *)
(***************************************************************************)
ControlMaster == "ssh -o ControlMaster=yes /usr/bin/cat"

\* OpenSSHTransport.__init__: self.control_master = self._run(command,
\* collect_output=False).  An SSHCommand whose output nobody reads; the
\* transport keeps it and never waits for it.
OpenSSHTransport_init ==
    /\ commands = <<>>
    /\ commands' = <<[SSHCommand(ControlMaster) EXCEPT
                        !.running_threads = registered(FALSE)]>>
    /\ remote' = <<invoke_shell>>
    /\ threads' = <<[t \in StreamNames |-> "unstarted"]>>
    /\ UNCHANGED <<main, result, held, fifo, nonCmdVars>>

\* host.run_command on the host of that transport, once.
OpenSSH_run_command(raiseonerr, bg) ==
    /\ Len(commands) = 1
    /\ run_command("sh", raiseonerr, bg)

NextMaster ==
    \/ OpenSSHTransport_init
    \/ \E raiseonerr \in BOOLEAN, bg \in BOOLEAN :
            OpenSSH_run_command(raiseonerr, bg)
    \/ \E c \in 1..MaxCmds, raiseonerr \in {DEFAULT, Some(TRUE), Some(FALSE)} :
            wait(c, raiseonerr)
    \/ join_pop
    \/ join_return
    \/ join_lines
    \/ wait_finish
    \/ \E c \in 1..Len(commands), t \in StreamNames : read_line(c, t)
    \/ \E c \in 1..Len(commands), t \in StreamNames : read_eof(c, t)
    \/ \E c \in 1..Len(commands), t \in StreamNames : remote_write(c, t)
    \/ \E c \in 1..Len(commands), status \in ExitStatuses : remote_exit(c, status)

SpecMaster == InitCommands /\ [][NextMaster]_vars

(***************************************************************************)
(* The matcher as a state machine: a configuration is loaded, then the     *)
(* test calls Config.filter with a request.                                *)
(***************************************************************************)
InitFilter ==
    /\ domains \in Topologies
    /\ loaded = domains
    /\ domains0 = domains
    /\ descriptions = <<>>
    /\ descriptions0 = <<>>
    /\ outcome = [exc |-> "uncalled", i |-> 0]
    /\ n_filter = 0
    /\ InitCmd
    /\ IdleRest

Filter ==
    /\ outcome.exc = "uncalled"
    /\ \E D \in Requests :
        /\ LET r == Config_filter(domains, D) IN
            /\ domains' = r.domains
            /\ descriptions' = r.descriptions
            /\ outcome' = [exc |-> r.exc, i |-> r.i]
        /\ domains0' = domains
        /\ descriptions0' = D
    /\ n_filter' = n_filter + 1
    /\ UNCHANGED loaded
    /\ UNCHANGED nonFilterVars

NextFilter == Filter

SpecFilter == InitFilter /\ [][NextFilter]_vars

(***************************************************************************)
(* The matcher called again and again on the same Config, each time with   *)
(* descriptors made anew for the call.  The requests name a type and ask   *)
(* for one host of every role they mention.                                *)
(***************************************************************************)
RefilterDescriptors ==
    {[type |-> t, hosts |-> h] :
        t \in DomainTypes,
        h \in {hc \in HostCounts : \A r \in DOMAIN hc : hc[r] = 1}}

RefilterRequests == UNION {[1..n -> RefilterDescriptors] : n \in 0..MaxDescr}

\* config.filter(descriptions), the first call or a later one
Refilter ==
    /\ n_filter < MaxFilterCalls
    /\ \E D \in RefilterRequests :
        /\ LET r == Config_filter(domains, D) IN
            /\ domains' = r.domains
            /\ descriptions' = r.descriptions
            /\ outcome' = [exc |-> r.exc, i |-> r.i]
        /\ domains0' = domains
        /\ descriptions0' = D
    /\ n_filter' = n_filter + 1
    /\ UNCHANGED loaded
    /\ UNCHANGED nonFilterVars

NextRefilter == Refilter

SpecRefilter == InitFilter /\ [][NextRefilter]_vars

(***************************************************************************)
(* The matcher called a second time after a successful call, with          *)
(* descriptors equal to those the first call was given.                    *)
(***************************************************************************)
\* config.filter(D2), D2 == D as D was before the first call
FilterAgain ==
    /\ n_filter = 1
    /\ outcome.exc = "none"
    /\ LET r == Config_filter(domains, descriptions0) IN
        /\ domains' = r.domains
        /\ descriptions' = r.descriptions
        /\ outcome' = [exc |-> r.exc, i |-> r.i]
    /\ domains0' = domains
    /\ n_filter' = n_filter + 1
    /\ UNCHANGED <<loaded, descriptions0>>
    /\ UNCHANGED nonFilterVars

NextFilterTwice ==
    \/ Filter
    \/ FilterAgain

SpecFilterTwice == InitFilter /\ [][NextFilterTwice]_vars

(***************************************************************************)
(* Domain.filter called by the test itself on the first domain of a        *)
(* configuration, with host counts of the test's choosing.                 *)
(***************************************************************************)
InitPrune ==
    /\ domains \in {t \in Topologies : Len(t) = 1}
    /\ loaded = domains
    /\ domains0 = domains
    /\ descriptions = <<>>
    /\ descriptions0 = <<>>
    /\ outcome = [exc |-> "uncalled", i |-> 0]
    /\ n_filter = 0
    /\ InitCmd
    /\ IdleRest

\* config.domains[0].filter(host_counts): descriptions holds the mapping of
\* the caller after the call, which is also what the exception prints.
Prune ==
    /\ outcome.exc = "uncalled"
    /\ \E host_counts \in HostCounts :
        LET r == Domain_filter(domains[1], host_counts) IN
            /\ domains' = <<r.domain>>
            /\ descriptions' = <<[type |-> NoType, hosts |-> r.host_counts]>>
            /\ outcome' = [exc |-> r.exc, i |-> 0]
            /\ domains0' = domains
            /\ descriptions0' = <<[type |-> NoType, hosts |-> host_counts]>>
    /\ n_filter' = n_filter + 1
    /\ UNCHANGED loaded
    /\ UNCHANGED nonFilterVars

NextPrune == Prune

SpecPrune == InitPrune /\ [][NextPrune]_vars

(***************************************************************************)
(* A Host and its memoized Transport (pytest_multihost/host.py).           *)
(***************************************************************************)
Usernames == {"root", "nobody"}
Passwords == {None, Some("Secret123"), Some("BAD PASSWORD")}
KeyFilenames == {None, Some("~/.ssh/id_rsa"), Some("~/.ssh/other_key")}

\* The logins the remote sshd accepts: user, method, secret.
Authorized ==
    {<<"root", "password", "Secret123">>, <<"root", "key", "~/.ssh/id_rsa">>}

\* BaseHost.__init__: the credentials of a new host; no _transport attribute.
BaseHost(username, password, key_filename) ==
    [ssh_username |-> username, ssh_password |-> password,
     ssh_key_filename |-> key_filename, _transport |-> None]

\* The credentials of a host, as a triple.
Credentials(h) == <<h.ssh_username, h.ssh_password, h.ssh_key_filename>>

\* A ParamikoTransport that tries the password before the key.
ParamikoTransport_password_first(h, id) ==
    LET login == IF truthy(h.ssh_password)
                 THEN <<h.ssh_username, "password", h.ssh_password[1]>>
                 ELSE IF truthy(h.ssh_key_filename)
                 THEN <<h.ssh_username, "key", h.ssh_key_filename[1]>>
                 ELSE <<>>
    IN  IF login = <<>>
        THEN [exc |-> "RuntimeError", msg |-> "No SSH credentials configured"]
        ELSE IF login \notin Authorized
        THEN [exc |-> "AuthenticationException"]
        ELSE [exc |-> "none",
              obj |-> [id |-> id, cls |-> "paramiko", login |-> login]]

\* ParamikoTransport.__init__: authenticate with the key if the host has one,
\* else with the password; with neither, RuntimeError.
ParamikoTransport(h, id) ==
    LET login == IF truthy(h.ssh_key_filename)
                 THEN <<h.ssh_username, "key", h.ssh_key_filename[1]>>
                 ELSE IF truthy(h.ssh_password)
                 THEN <<h.ssh_username, "password", h.ssh_password[1]>>
                 ELSE <<>>
    IN  IF login = <<>>
        THEN [exc |-> "RuntimeError", msg |-> "No SSH credentials configured"]
        ELSE IF login \notin Authorized
        THEN [exc |-> "AuthenticationException"]
        ELSE [exc |-> "none",
              obj |-> [id |-> id, cls |-> "paramiko", login |-> login]]

\* An OpenSSHTransport that leaves a host with a password to ssh, which
\* would ask for the password.
OpenSSHTransport_password_prompt(h, id) ==
    IF truthy(h.ssh_key_filename)
    THEN [exc |-> "none", launched |-> 1,
          obj |-> [id |-> id, cls |-> "openssh",
                   login |-> <<h.ssh_username, "key", h.ssh_key_filename[1]>>]]
    ELSE IF truthy(h.ssh_password)
    THEN [exc |-> "none", launched |-> 1,
          obj |-> [id |-> id, cls |-> "openssh",
                   login |-> <<h.ssh_username, "password", h.ssh_password[1]>>]]
    ELSE [exc |-> "RuntimeError", msg |-> "No SSH credentials configured"]

\* OpenSSHTransport.__init__ / _get_ssh_argv: the ssh command line is built
\* from the host's user and key; a host without a key is refused, with one
\* message if it has a password and another if it has not.  Only then the
\* control master is started (launched: the processes started by the
\* constructor).  Nothing is authenticated yet.
OpenSSHTransport(h, id) ==
    IF truthy(h.ssh_key_filename)
    THEN [exc |-> "none", launched |-> 1,
          obj |-> [id |-> id, cls |-> "openssh",
                   login |-> <<h.ssh_username, "key", h.ssh_key_filename[1]>>]]
    ELSE IF truthy(h.ssh_password)
    THEN [exc |-> "RuntimeError",
          msg |-> "Password authentication not supported"]
    ELSE [exc |-> "RuntimeError", msg |-> "No SSH credentials configured"]

\* The message of the exception a constructor raised, and the processes it
\* started.
msg_of(t) == IF "msg" \in DOMAIN t THEN t.msg ELSE ""
launched_of(t) == IF "launched" \in DOMAIN t THEN t.launched ELSE 0

\* The classes a host can have as transport_class: the two of transport.py,
\* and None, the value for a class that has no transport.
TransportClasses == {"paramiko", "openssh", "none"}

\* cls(self), or NotImplementedError when the class is None
construct(h, cls, id) ==
    IF cls = "none"
    THEN [exc |-> "NotImplementedError", msg |-> "transport class not available"]
    ELSE IF cls = "paramiko" THEN ParamikoTransport(h, id)
    ELSE OpenSSHTransport(h, id)

\* A transport property that keeps a Transport also when its constructor
\* raised.
transport_keeps_failed(h, cls, id) ==
    IF h._transport # None
    THEN [exc |-> "none", host |-> h, transport |-> h._transport, built |-> 0,
          msg |-> "", launched |-> 0]
    ELSE LET t == construct(h, cls, id)
         IN  IF t.exc = "none"
             THEN [exc |-> "none",
                   host |-> [h EXCEPT !._transport = Some(t.obj)],
                   transport |-> Some(t.obj), built |-> 1, msg |-> "",
                   launched |-> launched_of(t)]
             ELSE [exc |-> t.exc,
                   host |-> [h EXCEPT !._transport =
                                Some([id |-> id, cls |-> cls, login |-> <<>>])],
                   transport |-> None, built |-> 1, msg |-> msg_of(t),
                   launched |-> launched_of(t)]

\* A transport property that builds from the host's current credentials at
\* every access.
transport_not_memoized(h, cls, id) ==
    LET t == construct(h, cls, id)
    IN  IF t.exc = "none"
        THEN [exc |-> "none", host |-> [h EXCEPT !._transport = Some(t.obj)],
              transport |-> Some(t.obj), built |-> 1, msg |-> "",
              launched |-> launched_of(t)]
        ELSE [exc |-> t.exc, host |-> h, transport |-> None, built |-> 0,
              msg |-> msg_of(t), launched |-> launched_of(t)]

\* BaseHost.transport (property): return self._transport if the attribute is
\* there, else construct transport_class(self) and keep it.  A constructor
\* that raises leaves the host without the attribute.
transport(h, cls, id) ==
    IF h._transport # None
    THEN [exc |-> "none", host |-> h, transport |-> h._transport, built |-> 0,
          msg |-> "", launched |-> 0]
    ELSE LET t == construct(h, cls, id)
         IN  IF t.exc = "none"
             THEN [exc |-> "none",
                   host |-> [h EXCEPT !._transport = Some(t.obj)],
                   transport |-> Some(t.obj), built |-> 1, msg |-> "",
                   launched |-> launched_of(t)]
             ELSE [exc |-> t.exc, host |-> h, transport |-> None,
                   built |-> 0, msg |-> msg_of(t),
                   launched |-> launched_of(t)]

\* How a command run over a transport ends.  A Paramiko transport is an
\* authenticated connection.  An OpenSSH transport starts 'ssh' with its
\* command line: with a login the server refuses, ssh exits with 255 and the
\* command fails, in wait() or already when its stdin is written.
command_outcomes(obj) ==
    IF obj.login \in Authorized THEN {"none"}
    ELSE {"CalledProcessError", "BrokenPipeError"}


NoRun ==
    [exc |-> "never", transport |-> None, creds |-> <<>>, prev |-> "never",
     was_reset |-> FALSE, pend_reset |-> FALSE, fresh |-> FALSE,
     msg |-> "", launched |-> 0]

\* host.run_command(...): self.transport.start_shell(argv), then the command
\* runs over that transport.  last records how the call ended, the Transport
\* the property returned, the host's credentials at the call, how the
\* previous call ended, whether reset_connection was called in between and
\* whether the property had to construct a Transport (fresh), and the
\* message of the constructor's exception and the processes it started.
Host_run_command ==
    /\ ahost._transport = None => n_built < MaxTransports
    /\ LET a == transport(ahost, transport_class, n_built + 1) IN
        /\ ahost' = a.host
        /\ n_built' = n_built + a.built
        /\ \E exc \in (IF a.exc # "none" THEN {a.exc}
                       ELSE command_outcomes(a.transport[1])) :
              last' = [exc |-> exc, transport |-> a.transport,
                       creds |-> Credentials(ahost), prev |-> last.exc,
                       was_reset |-> last.pend_reset, pend_reset |-> FALSE,
                       fresh |-> ahost._transport = None,
                       msg |-> a.msg, launched |-> a.launched]
        /\ since' = IF since = None /\ a.transport # None
                    THEN Some([transport |-> a.transport[1],
                               creds |-> Credentials(ahost)])
                    ELSE since
    /\ UNCHANGED <<transport_class, nonHostVars>>

\* The test sets host.ssh_username.
set_ssh_username(v) ==
    /\ v # ahost.ssh_username
    /\ ahost' = [ahost EXCEPT !.ssh_username = v]
    /\ UNCHANGED <<transport_class, n_built, last, since, nonHostVars>>

\* The test sets host.ssh_password.
set_ssh_password(v) ==
    /\ v # ahost.ssh_password
    /\ ahost' = [ahost EXCEPT !.ssh_password = v]
    /\ UNCHANGED <<transport_class, n_built, last, since, nonHostVars>>

\* The test sets host.ssh_key_filename.
set_ssh_key_filename(v) ==
    /\ v # ahost.ssh_key_filename
    /\ ahost' = [ahost EXCEPT !.ssh_key_filename = v]
    /\ UNCHANGED <<transport_class, n_built, last, since, nonHostVars>>

\* BaseHost.reset_connection: del self._transport, whether it is there or not.
reset_connection ==
    /\ ahost' = [ahost EXCEPT !._transport = None]
    /\ last' = [last EXCEPT !.pend_reset = TRUE]
    /\ since' = None
    /\ UNCHANGED <<transport_class, n_built, nonHostVars>>

\* BaseHost.__init__ leaves a host with a password or a key file: Config
\* falls back to '~/.ssh/id_rsa' when it has neither.
InitHost ==
    /\ transport_class \in TransportClasses
    /\ \E u \in Usernames, pw \in Passwords, k \in KeyFilenames :
        /\ pw # None \/ k # None
        /\ ahost = BaseHost(u, pw, k)
    /\ n_built = 0
    /\ last = NoRun
    /\ since = None
    /\ InitCmd
    /\ IdleFilter
    /\ IdleLoad
    /\ IdleLookup
    /\ IdleQuote
    /\ IdleFiles
    /\ IdleShell

NextHost ==
    \/ Host_run_command
    \/ \E v \in Usernames : set_ssh_username(v)
    \/ \E v \in Passwords : set_ssh_password(v)
    \/ \E v \in KeyFilenames : set_ssh_key_filename(v)
    \/ reset_connection

SpecHost == InitHost /\ [][NextHost]_vars

(***************************************************************************)
(* Loading and exporting a configuration (Config.from_dict, Config.to_dict *)
(* and the from_dict / to_dict of Domain and BaseHost).  A string is the   *)
(* sequence of its characters, a dict a function on the set of its keys.   *)
(***************************************************************************)
Dot == "."

\* '.' in s
has_dot(s) == \E k \in 1..Len(s) : s[k] = Dot

\* s.endswith('.')
endswith_dot(s) == s # <<>> /\ s[Len(s)] = Dot

\* s.partition('.')[0]: the part before the first dot, all of s without one
partition_head(s) ==
    IF has_dot(s)
    THEN SubSeq(s, 1, (CHOOSE k \in 1..Len(s) :
                        s[k] = Dot /\ \A j \in 1..(k - 1) : s[j] # Dot) - 1)
    ELSE s

\* dct.pop(key) as far as the dict goes: the dict without the key
pop(dct, key) == [k \in DOMAIN dct \ {key} |-> dct[k]]

\* str.lower() on the role names in use
lower(role) ==
    CASE role = "Master" -> "master"
      [] role = "Replica" -> "replica"
      [] OTHER -> role

\* socket.gethostbyname: the names the resolver of the test machine knows
Resolvable == {<<"l">>}
gethostbyname(name) == IF name \in Resolvable THEN Some("127.0.0.1") ELSE None

\* check_config_dict_empty(dct, name)
check_config_dict_empty(dct, name) ==
    IF DOMAIN dct # {}
    THEN [exc |-> "ValueError", name |-> name, keys |-> DOMAIN dct]
    ELSE [exc |-> "none"]

\* A hostname taken as given whenever it has a dot.
hostname_verbatim(hostname, shortname, domain_name) ==
    IF endswith_dot(hostname) THEN SubSeq(hostname, 1, Len(hostname) - 1)
    ELSE IF has_dot(hostname) THEN hostname
    ELSE shortname \o <<Dot>> \o domain_name

\* BaseHost.__init__: self.hostname
hostname_of(hostname, shortname, domain_name) ==
    IF endswith_dot(hostname) THEN SubSeq(hostname, 1, Len(hostname) - 1)
    ELSE shortname \o <<Dot>> \o domain_name

\* BaseHost.__init__(domain, hostname, role, ip=, external_hostname=,
\* username=, password=, host_type=); cfg is domain.config.  The optional
\* arguments are None or Some(value).
BaseHost_init(domain_name, cfg, hostname, role, ip, external_hostname, username, password, host_type) ==
    LET shortname == partition_head(hostname)
        ext == IF external_hostname # None /\ external_hostname # Some(<<>>)
               THEN external_hostname[1] ELSE hostname
        addr == IF ip # None THEN ip ELSE gethostbyname(ext)
    IN  IF addr = None THEN [exc |-> "RuntimeError"]
        ELSE [exc |-> "none",
              host |-> [
                host_type |-> host_type,
                role |-> role,
                ssh_username |-> IF username = None THEN cfg.ssh_username
                                 ELSE username[1],
                ssh_key_filename |-> IF password = None
                                     THEN cfg.ssh_key_filename ELSE None,
                ssh_password |-> IF password = None THEN cfg.ssh_password
                                 ELSE password,
                shortname |-> shortname,
                hostname |-> hostname_of(hostname, shortname, domain_name),
                external_hostname |-> ext,
                ip |-> addr[1]]]

\* dct.pop(key, None) as far as the value goes
pop_value(dct, key) == IF key \in DOMAIN dct THEN Some(dct[key]) ELSE None

HostKeys ==
    {"role", "name", "ip", "external_hostname", "username", "password",
     "host_type"}

\* BaseHost.from_dict(dct, domain): dct is the dict the caller handed over.
Host_from_dict(dct, domain_name, cfg) ==
    LET role == IF "role" \in DOMAIN dct THEN lower(dct.role) ELSE "master"
        hostname == IF has_dot(dct.name) THEN dct.name
                    ELSE dct.name \o <<Dot>> \o domain_name
        left == [k \in DOMAIN dct \ HostKeys |-> dct[k]]
        chk == check_config_dict_empty(left, <<"host", hostname>>)
    IN  IF chk.exc # "none" THEN chk
        ELSE BaseHost_init(domain_name, cfg, hostname, role,
                           pop_value(dct, "ip"),
                           pop_value(dct, "external_hostname"),
                           pop_value(dct, "username"),
                           IF "password" \in DOMAIN dct THEN dct.password
                           ELSE None,
                           IF "host_type" \in DOMAIN dct THEN dct.host_type
                           ELSE "default")


\* The host loop of Domain.from_dict: host_class.from_dict(dict(host_dict),
\* self) for the host dicts from the k-th on, appended to self.hosts.  Each
\* call works on a copy, so the dicts of the caller stay as they are.
RECURSIVE load_hosts(_, _, _, _, _)
\* self.hosts.append(host) and the rest of the loop, unless from_dict raised
hosts_append(h, host_dicts, k, domain_name, cfg, hosts) ==
    IF h.exc # "none" THEN h
    ELSE load_hosts(host_dicts, k + 1, domain_name, cfg, Append(hosts, h.host))

load_hosts(host_dicts, k, domain_name, cfg, hosts) ==
    IF k > Len(host_dicts) THEN [exc |-> "none", hosts |-> hosts]
    ELSE hosts_append(Host_from_dict(host_dicts[k], domain_name, cfg),
                      host_dicts, k, domain_name, cfg, hosts)

\* The end of Domain.from_dict: the host loop has run (loaded_hosts), then
\* check_config_dict_empty (chk), then the domain is returned.
Domain_loaded(loaded_hosts, chk, domain_name, domain_type) ==
    IF loaded_hosts.exc # "none" THEN loaded_hosts
    ELSE IF chk.exc # "none" THEN chk
    ELSE [exc |-> "none",
          domain |-> [name |-> domain_name, type |-> domain_type,
                      hosts |-> loaded_hosts.hosts]]

\* Domain.from_dict(dct, config)
Domain_from_dict(dct, cfg) ==
    Domain_loaded(
        load_hosts(dct.hosts, 1, dct.name, cfg, <<>>),
        check_config_dict_empty(
            [k \in DOMAIN dct \ {"type", "name", "hosts"} |-> dct[k]],
            <<"domain", dct.name>>),
        dct.name,
        IF "type" \in DOMAIN dct THEN dct.type ELSE "default")

\* The domain loop of Config.__init__: domain_class.from_dict(
\* dict(domain_dict), self) for the domain dicts from the k-th on.
RECURSIVE load_domains(_, _, _, _)
\* self.domains.append(domain) and the rest of the loop, unless from_dict
\* raised
domains_append(d, domain_dicts, k, cfg, doms) ==
    IF d.exc # "none" THEN d
    ELSE load_domains(domain_dicts, k + 1, cfg, Append(doms, d.domain))

load_domains(domain_dicts, k, cfg, doms) ==
    IF k > Len(domain_dicts) THEN [exc |-> "none", domains |-> doms]
    ELSE domains_append(Domain_from_dict(domain_dicts[k], cfg),
                        domain_dicts, k, cfg, doms)

\* kwargs.get(key), None without the key; the values of these keys are
\* None or Some(string)
get_opt(kwargs, key) == IF key \in DOMAIN kwargs THEN kwargs[key] ELSE None

\* The end of Config.__init__: the attributes are set (cfg) and the domain
\* loop has run (doms).
Config_loaded(cfg, doms) ==
    IF doms.exc # "none" THEN doms
    ELSE [exc |-> "none", config |-> cfg @@ [domains |-> doms.domains]]

\* Config.__init__(**kwargs)
Config_init(kwargs) ==
    LET password == get_opt(kwargs, "ssh_password")
        key == get_opt(kwargs, "ssh_key_filename")
        cfg == [test_dir |-> IF "test_dir" \in DOMAIN kwargs
                             THEN kwargs.test_dir ELSE "/root/multihost_tests",
                ssh_key_filename |-> IF ~truthy(password) /\ ~truthy(key)
                                     THEN Some("~/.ssh/id_rsa") ELSE key,
                ssh_password |-> password,
                ssh_username |-> IF "ssh_username" \in DOMAIN kwargs
                                 THEN kwargs.ssh_username ELSE "root",
                ipv6 |-> IF "ipv6" \in DOMAIN kwargs THEN kwargs.ipv6
                         ELSE FALSE]
    IN  Config_loaded(cfg, load_domains(kwargs.domains, 1, cfg, <<>>))

\* dct[new] = dct.pop(old), done on the dict of the caller
rename_key(dct, old, new) ==
    IF old \in DOMAIN dct
    THEN [k \in (DOMAIN dct \ {old}) \cup {new} |->
            IF k = new THEN dct[old] ELSE dct[k]]
    ELSE dct

init_args ==
    {"test_dir", "ssh_key_filename", "ssh_password", "ssh_username",
     "domains", "ipv6"}

\* What from_dict leaves: the result of cls(**dct), the dict as it is now and
\* the extra keys that were found.
from_dict_return(c, dct) ==
    IF c.exc # "none" THEN c @@ [dct |-> dct]
    ELSE [exc |-> "none", config |-> c.config, dct |-> dct,
          extra_args |-> DOMAIN dct \ init_args]

\* The end of Config.from_dict, with the legacy keys renamed: extra_args is
\* computed, the ValueError is constructed and dropped, then cls(**dct).
cls(dct) == from_dict_return(Config_init(dct), dct)

\* Config.from_dict(dct): the legacy keys are renamed in dct itself
\* ('windows_test_dir' is popped and put back); the ValueError for extra keys
\* is constructed and dropped, not raised; then cls(**dct).  dct is the caller's dict as the call leaves it.
Config_from_dict(dct) ==
    cls(rename_key(rename_key(dct, "root_ssh_key_filename",
                              "ssh_key_filename"),
                   "root_password", "ssh_password"))

\* BaseHost.to_dict
Host_to_dict(h) ==
    LET exported_host == [name |-> h.hostname, ip |-> h.ip, role |-> h.role,
                          external_hostname |-> h.external_hostname]
    IN  IF h.host_type # "default"
        THEN exported_host @@ [host_type |-> h.host_type]
        ELSE exported_host

\* Domain.to_dict
Domain_to_dict(d) ==
    [type |-> d.type, name |-> d.name,
     hosts |-> [k \in 1..Len(d.hosts) |-> Host_to_dict(d.hosts[k])]]

\* Config.to_dict
Config_to_dict(c) ==
    [domains |-> [k \in 1..Len(c.domains) |-> Domain_to_dict(c.domains[k])],
     test_dir |-> c.test_dir,
     ssh_key_filename |-> c.ssh_key_filename,
     ssh_password |-> c.ssh_password,
     ssh_username |-> c.ssh_username,
     ipv6 |-> c.ipv6]


(***************************************************************************)
(* The configuration mappings loaded: one domain with one host whose name  *)
(* and optional keys vary, with legacy keys and at most one unknown key at *)
(* one of the three levels; and plain topologies of several domains and    *)
(* hosts.                                                                  *)
(***************************************************************************)
EmptyDict == [k \in {} |-> 0]
NameChars == {"m", Dot}
\* Host names as a configuration gives them: labels separated by single
\* dots, with or without a trailing dot.
HostNames ==
    {n \in UNION {[1..m -> NameChars] : m \in 1..MaxNameLen} :
        /\ n[1] # Dot
        /\ \A k \in 1..(Len(n) - 1) : ~(n[k] = Dot /\ n[k + 1] = Dot)}
DomainNames == {<<"a">>, <<"a", Dot, "t">>}
Extra == [bogus |-> "x"]

HostDicts ==
    {[name |-> n, ip |-> "192.0.2.1"] @@ r @@ e :
        n \in HostNames,
        r \in {EmptyDict, [role |-> "Replica"]},
        e \in {EmptyDict, [external_hostname |-> <<"x", Dot, "t">>]}}

MinimalConfDicts ==
    {[domains |-> <<[name |-> dn, hosts |-> <<h @@ xh>>] @@ t @@ xd>>]
        @@ k @@ pw @@ xt :
        dn \in DomainNames, h \in HostDicts,
        t \in {EmptyDict, [type |-> "B"]},
        k \in {EmptyDict, [root_ssh_key_filename |-> Some("~/.ssh/root_key")]},
        pw \in {EmptyDict, [root_password |-> Some("Secret123")]},
        xh \in {EmptyDict, Extra}, xd \in {EmptyDict, Extra},
        xt \in {EmptyDict, Extra}}

PlainHostDicts ==
    {[name |-> <<"m">>, ip |-> "192.0.2.1"],
     [name |-> <<"m", "m">>, ip |-> "192.0.2.2", role |-> "Replica"]}

PlainDomainDicts ==
    {[name |-> <<"a", Dot, "t">>, hosts |-> hs] @@ t :
        hs \in UNION {[1..n -> PlainHostDicts] : n \in 0..MaxHosts},
        t \in {EmptyDict, [type |-> "B"]}}

ComplexConfDicts ==
    {[domains |-> ds] :
        ds \in UNION {[1..n -> PlainDomainDicts] : n \in 0..MaxDomains}}

ConfDicts == MinimalConfDicts \cup ComplexConfDicts

\* What the test asks of a loaded configuration.
LoadRequests ==
    {<<[type |-> NoType, hosts |-> [r \in {"master"} |-> 1]]>>,
     <<[type |-> "B", hosts |-> [r \in {"replica"} |-> 1]]>>}

Unloaded == [exc |-> "unloaded"]
Unfiltered == [exc |-> "uncalled"]

InitLoad ==
    /\ conf \in ConfDicts
    /\ conf0 = conf
    /\ load = Unloaded
    /\ config = None
    /\ filtered = Unfiltered
    /\ exported = None
    /\ reloaded = Unloaded
    /\ InitCmd
    /\ IdleFilter
    /\ IdleHost
    /\ IdleLookup
    /\ IdleQuote
    /\ IdleFiles
    /\ IdleShell

\* config = Config.from_dict(conf)
Load ==
    /\ load = Unloaded
    /\ LET r == Config_from_dict(conf) IN
        /\ conf' = r.dct
        /\ load' = [k \in DOMAIN r \ {"config", "dct"} |-> r[k]]
        /\ config' = IF r.exc = "none" THEN Some(r.config) ELSE None
    /\ UNCHANGED <<conf0, filtered, exported, reloaded, nonLoadVars>>

\* config.filter(descriptions)
FilterLoaded ==
    /\ config # None
    /\ filtered = Unfiltered
    /\ \E D \in LoadRequests :
        LET r == Config_filter(config[1].domains, D) IN
            /\ config' = Some([config[1] EXCEPT !.domains = r.domains])
            /\ filtered' = [exc |-> r.exc, descriptions |-> D]
    /\ UNCHANGED <<conf, conf0, load, exported, reloaded, nonLoadVars>>

\* exported = config.to_dict()
Export ==
    /\ config # None
    /\ exported = None
    /\ exported' = Some([dct |-> Config_to_dict(config[1]),
                         config |-> config[1]])
    /\ UNCHANGED <<conf, conf0, load, config, filtered, reloaded,
                  nonLoadVars>>

\* Config.from_dict(exported), as test_dict_roundtrip does
Reload ==
    /\ exported # None
    /\ reloaded = Unloaded
    /\ LET r == Config_from_dict(exported[1].dct) IN
        /\ reloaded' = [k \in DOMAIN r \ {"dct"} |-> r[k]]
        /\ exported' = Some([exported[1] EXCEPT !.dct = r.dct])
    /\ UNCHANGED <<conf, conf0, load, config, filtered, nonLoadVars>>

NextLoad ==
    \/ Load
    \/ FilterLoaded
    \/ Export
    \/ Reload

SpecLoad == InitLoad /\ [][NextLoad]_vars

(***************************************************************************)
(* From the configuration to the connection: a configuration is loaded,    *)
(* the test takes its first host, may change the host's credentials, and   *)
(* runs commands on it.                                                    *)
(***************************************************************************)
\* Configurations of one host that differ in their credentials: a key file
\* for all hosts or none, a password for all hosts or none, a password of
\* the host's own or none.
CredentialConfDicts ==
    {[domains |-> <<[name |-> <<"a", Dot, "t">>,
                     hosts |-> <<[name |-> <<"m">>, ip |-> "192.0.2.1"]
                                 @@ hpw>>]>>] @@ k @@ pw :
        k \in {EmptyDict, [ssh_key_filename |-> Some("~/.ssh/other_key")]},
        pw \in {EmptyDict, [ssh_password |-> Some("Secret123")]},
        hpw \in {EmptyDict, [password |-> Some("Secret123")]}}

InitConnect ==
    /\ conf \in CredentialConfDicts
    /\ conf0 = conf
    /\ load = Unloaded
    /\ config = None
    /\ filtered = Unfiltered
    /\ exported = None
    /\ reloaded = Unloaded
    /\ transport_class \in {"paramiko", "openssh"}
    /\ ahost = <<>>
    /\ n_built = 0
    /\ last = NoRun
    /\ since = None
    /\ InitCmd
    /\ IdleFilter
    /\ IdleLookup
    /\ IdleQuote
    /\ IdleFiles
    /\ IdleShell

\* host = config.domains[0].hosts[0]: the host as BaseHost.__init__ left it.
TakeHost ==
    /\ config # None
    /\ ahost = <<>>
    /\ LET h == config[1].domains[1].hosts[1] IN
        ahost' = BaseHost(h.ssh_username, h.ssh_password, h.ssh_key_filename)
    /\ UNCHANGED <<transport_class, n_built, last, since, nonHostVars>>

NextConnect ==
    \/ Load
    \/ TakeHost
    \/ ahost # <<>> /\ Host_run_command
    \/ \E v \in Usernames : ahost # <<>> /\ set_ssh_username(v)
    \/ \E v \in Passwords : ahost # <<>> /\ set_ssh_password(v)
    \/ \E v \in KeyFilenames : ahost # <<>> /\ set_ssh_key_filename(v)
    \/ ahost # <<>> /\ reset_connection

SpecConnect == InitConnect /\ [][NextConnect]_vars

(***************************************************************************)
(* The credentials a host is constructed with: configurations of one host  *)
(* in which the key file of the Config, the password of the Config and the *)
(* password of the host are each absent, set, or the empty string.         *)
(***************************************************************************)
OptionalSettings(key, value) ==
    {EmptyDict, key :> Some(value), key :> Some("")}

ConstructionConfDicts ==
    {[domains |-> <<[name |-> <<"a", Dot, "t">>,
                     hosts |-> <<[name |-> <<"m">>, ip |-> "192.0.2.1"]
                                 @@ hpw>>]>>] @@ k @@ pw :
        k \in OptionalSettings("ssh_key_filename", "~/.ssh/other_key"),
        pw \in OptionalSettings("ssh_password", "Secret123"),
        hpw \in OptionalSettings("password", "Secret123")}

InitConstruct ==
    /\ conf \in ConstructionConfDicts
    /\ conf0 = conf
    /\ load = Unloaded
    /\ config = None
    /\ filtered = Unfiltered
    /\ exported = None
    /\ reloaded = Unloaded
    /\ transport_class \in {"paramiko", "openssh"}
    /\ ahost = <<>>
    /\ n_built = 0
    /\ last = NoRun
    /\ since = None
    /\ InitCmd
    /\ IdleFilter
    /\ IdleLookup
    /\ IdleQuote
    /\ IdleFiles
    /\ IdleShell

NextConstruct ==
    \/ Load
    \/ TakeHost
    \/ ahost # <<>> /\ Host_run_command

SpecConstruct == InitConstruct /\ [][NextConstruct]_vars

(***************************************************************************)
(* Lookups on a loaded Config: Config.host_by_name, Domain.host_by_name,   *)
(* Domain.hosts_by_role, Domain.host_by_role.  A host object is told from  *)
(* an equal one by its place: domain d of the Config, host k of the domain.*)
(***************************************************************************)
\* Domain.host_by_name(name): the place of the first host of the domain that
\* has the name, 0 for LookupError.
Domain_host_by_name(domain, name) ==
    LET matching == {k \in 1..Len(domain.hosts) :
                        name \in {domain.hosts[k].hostname,
                                  domain.hosts[k].external_hostname,
                                  domain.hosts[k].shortname}}
    IN  IF matching = {} THEN 0
        ELSE CHOOSE k \in matching : \A j \in matching : k <= j

\* The loop of Config.host_by_name from domain d on: a LookupError of a
\* domain is passed over; after the last domain LookupError is raised.
RECURSIVE host_by_name_from(_, _, _)
host_by_name_from(doms, d, name) ==
    IF d > Len(doms) THEN [exc |-> "LookupError", d |-> 0, k |-> 0]
    ELSE LET k == Domain_host_by_name(doms[d], name) IN
         IF k # 0 THEN [exc |-> "none", d |-> d, k |-> k]
         ELSE host_by_name_from(doms, d + 1, name)

\* A host_by_name that gives up when the first domain does not have the name.
host_by_name_first_domain_only(doms, name) ==
    IF doms = <<>> \/ Domain_host_by_name(doms[1], name) = 0
    THEN [exc |-> "LookupError", d |-> 0, k |-> 0]
    ELSE [exc |-> "none", d |-> 1, k |-> Domain_host_by_name(doms[1], name)]

\* Config.host_by_name(name)
Config_host_by_name(doms, name) == host_by_name_from(doms, 1, name)

\* A host_by_role that answers with the last host of the role.
host_by_role_last(domain, role) ==
    LET hosts == hosts_by_role(domain, role) IN
    IF hosts # <<>> THEN [exc |-> "none", host |-> Some(hosts[Len(hosts)])]
    ELSE [exc |-> "LookupError", host |-> None]

\* Domain.host_by_role(role)
host_by_role(domain, role) ==
    LET hosts == hosts_by_role(domain, role) IN
    IF hosts # <<>> THEN [exc |-> "none", host |-> Some(hosts[1])]
    ELSE [exc |-> "LookupError", host |-> None]

\* The configurations looked into: hosts whose short names, hostnames and
\* external hostnames meet across hosts and domains.
LookupHostDicts ==
    {[name |-> <<"m">>, ip |-> "192.0.2.1"],
     [name |-> <<"m">>, ip |-> "192.0.2.2",
      external_hostname |-> <<"r">>],
     [name |-> <<"r">>, ip |-> "192.0.2.3", role |-> "Replica"],
     [name |-> <<"r">>, ip |-> "192.0.2.4", role |-> "Replica",
      external_hostname |-> <<"m", Dot, "a">>]}

LookupDomainDicts ==
    {[name |-> dn, hosts |-> hs] @@ t :
        dn \in {<<"a">>, <<"b">>},
        hs \in UNION {[1..n -> LookupHostDicts] : n \in 0..MaxHosts},
        t \in {EmptyDict, [type |-> "B"]}}

LookupConfDicts ==
    {[domains |-> ds] :
        ds \in UNION {[1..n -> LookupDomainDicts] : n \in 0..MaxDomains}}

LookupNames ==
    {<<"m">>, <<"r">>, <<"m", Dot, "a">>, <<"r", Dot, "b">>, <<"x">>}
LookupRoles == {"master", "replica"}

\* The test has loaded a configuration.
InitLookup ==
    /\ \E m \in LookupConfDicts :
        LET r == Config_from_dict(m) IN
            /\ conf = r.dct
            /\ conf0 = m
            /\ load = [k \in DOMAIN r \ {"config", "dct"} |-> r[k]]
            /\ config = Some(r.config)
    /\ filtered = Unfiltered
    /\ exported = None
    /\ reloaded = Unloaded
    /\ lookup = [op |-> "none"]
    /\ InitCmd
    /\ IdleFilter
    /\ IdleHost
    /\ IdleQuote
    /\ IdleFiles
    /\ IdleShell

\* The test makes one lookup: config.host_by_name(name).  doms records the
\* domains looked into, filter how the filter call before the lookup ended.
Lookup_host_by_name(name) ==
    /\ lookup.op = "none"
    /\ lookup' = [op |-> "host_by_name", name |-> name,
                  doms |-> config[1].domains, filter |-> filtered]
                 @@ Config_host_by_name(config[1].domains, name)
    /\ UNCHANGED nonLookupVars

\* config.domains[d].hosts_by_role(role)
Lookup_hosts_by_role(d, role) ==
    /\ lookup.op = "none"
    /\ d \in 1..Len(config[1].domains)
    /\ lookup' = [op |-> "hosts_by_role", d |-> d, role |-> role,
                  doms |-> config[1].domains, filter |-> filtered,
                  exc |-> "none",
                  hosts |-> hosts_by_role(config[1].domains[d], role)]
    /\ UNCHANGED nonLookupVars

\* config.domains[d].host_by_role(role)
Lookup_host_by_role(d, role) ==
    /\ lookup.op = "none"
    /\ d \in 1..Len(config[1].domains)
    /\ lookup' = [op |-> "host_by_role", d |-> d, role |-> role,
                  doms |-> config[1].domains, filter |-> filtered]
                 @@ host_by_role(config[1].domains[d], role)
    /\ UNCHANGED nonLookupVars

NextLookup ==
    \/ FilterLoaded
    \/ \E name \in LookupNames : Lookup_host_by_name(name)
    \/ \E d \in 1..MaxDomains, role \in LookupRoles : Lookup_hosts_by_role(d, role)
    \/ \E d \in 1..MaxDomains, role \in LookupRoles : Lookup_host_by_role(d, role)

SpecLookup == InitLookup /\ [][NextLookup]_vars

(***************************************************************************)
(* Quoting of command arguments (pytest_multihost/util.py shell_quote) and *)
(* the reading of a command line by the remote POSIX shell.                *)
(***************************************************************************)
SQ == "'"
DQ == "\""
BS == "\\"
SP == " "
DOLLAR == "$"
ArgChars == {SQ, DQ, BS, SP, DOLLAR, "a"}
Args == UNION {[1..n -> ArgChars] : n \in 0..MaxArgLen}

\* string.replace("'", "'\''")
RECURSIVE replace_quotes(_)
replace_quotes(string) ==
    IF string = <<>> THEN <<>>
    ELSE (IF Head(string) = SQ THEN <<SQ, BS, SQ, SQ>> ELSE <<Head(string)>>)
         \o replace_quotes(Tail(string))

\* A shell_quote that does not replace the quotes inside the string.
shell_quote_unreplaced(string) == <<SQ>> \o string \o <<SQ>>

\* shell_quote(string)
shell_quote(string) == <<SQ>> \o replace_quotes(string) \o <<SQ>>

\* The variables of the remote shell: $a stands for a value of its own.
shell_variable == <<"v", "a", "l">>

\* The remote shell reads a command line from character k on (POSIX token
\* recognition and quote removal).  mode tells whether k is outside quotes,
\* inside single or inside double quotes; word is the current word, inword
\* whether there is one; done the words read.  An unquoted space ends a
\* word, a backslash outside quotes takes the next character as it is, a
\* backslash inside double quotes only before $ " and \, and $a outside
\* single quotes is replaced by the variable.  The answer is the sequence of
\* words, and whether a quote was still open at the end of the line.
RECURSIVE sh_read(_, _, _, _, _, _)
sh_read(line, k, mode, word, inword, done) ==
    IF k > Len(line)
    THEN [unterminated |-> mode # "plain",
          words |-> IF inword THEN Append(done, word) ELSE done]
    ELSE LET c == line[k]
             more == k < Len(line)
         IN
         IF mode = "single"
         THEN IF c = SQ THEN sh_read(line, k + 1, "plain", word, TRUE, done)
              ELSE sh_read(line, k + 1, mode, Append(word, c), TRUE, done)
         ELSE IF c = DOLLAR /\ more /\ line[k + 1] = "a"
         THEN sh_read(line, k + 2, mode, word \o shell_variable, TRUE, done)
         ELSE IF mode = "double"
         THEN IF c = DQ THEN sh_read(line, k + 1, "plain", word, TRUE, done)
              ELSE IF c = BS /\ more /\ line[k + 1] \in {DOLLAR, DQ, BS}
              THEN sh_read(line, k + 2, mode, Append(word, line[k + 1]),
                           TRUE, done)
              ELSE sh_read(line, k + 1, mode, Append(word, c), TRUE, done)
         ELSE IF c = SQ THEN sh_read(line, k + 1, "single", word, TRUE, done)
         ELSE IF c = DQ THEN sh_read(line, k + 1, "double", word, TRUE, done)
         ELSE IF c = BS /\ more
         THEN sh_read(line, k + 2, mode, Append(word, line[k + 1]), TRUE, done)
         ELSE IF c = SP
         THEN sh_read(line, k + 1, mode, <<>>, FALSE,
                      IF inword THEN Append(done, word) ELSE done)
         ELSE sh_read(line, k + 1, mode, Append(word, c), TRUE, done)

InitQuote ==
    /\ arg \in Args
    /\ quoted = None
    /\ words = None
    /\ InitCmd
    /\ IdleFilter
    /\ IdleHost
    /\ IdleLoad
    /\ IdleLookup
    /\ IdleFiles
    /\ IdleShell

\* run_command: command.stdin.write(shell_quote(arg))
Quote ==
    /\ quoted = None
    /\ quoted' = Some(shell_quote(arg))
    /\ UNCHANGED <<arg, words, nonQuoteVars>>

\* The remote shell reads what was written for the argument.
ShellReads ==
    /\ quoted # None
    /\ words = None
    /\ words' = Some(sh_read(quoted[1], 1, "plain", <<>>, FALSE, <<>>))
    /\ UNCHANGED <<arg, quoted, nonQuoteVars>>

NextQuote ==
    \/ Quote
    \/ ShellReads

SpecQuote == InitQuote /\ [][NextQuote]_vars

(***************************************************************************)
(* What run_command writes to the shell it starts                          *)
(* (pytest_multihost/host.py), statement by statement.  Bytes are          *)
(* sequences: a character each, the literals of the code one element each. *)
(***************************************************************************)
NUL == "NUL"

\* BaseHost.test_dir and BaseHost.env_sh_path of the host the command is run on.
test_dir == <<"/", "t">>
env_sh_path == test_dir \o <<"/env.sh">>

\* command_prelude of BaseHost (and WinHost), and of Host.
Preludes == {<<>>, <<"set -e\n">>}

\* The arguments of run_command: cwd, stdin_text and argv (a string, or a
\* popen-style list of strings).
Cwds == {None, Some(<<"w", SP, "d">>)}
StdinTexts == {None, Some(<<>>), Some(<<"x", SQ, BS>>), Some(<<NUL>>)}
ShellArgvs ==
    {[basestring |-> TRUE, value |-> <<"l", "s", SP, DOLLAR, "a">>],
     [basestring |-> FALSE, value |-> <<>>],
     [basestring |-> FALSE, value |-> << <<"l", "s">> >>],
     [basestring |-> FALSE, value |-> << <<"l", "s">>, <<"a", SQ, SP>> >>]}

\* bytestring.replace(old, new), old a single byte
RECURSIVE replace(_, _, _)
replace(bytestring, old, new) ==
    IF bytestring = <<>> THEN <<>>
    ELSE (IF Head(bytestring) = old THEN new ELSE <<Head(bytestring)>>)
         \o replace(Tail(bytestring), old, new)

\* An _echo_quote that replaces the NUL bytes before the backslashes.
_echo_quote_nul_first(bytestring) ==
    LET b1 == replace(bytestring, NUL, <<BS, "x", "0", "0">>)
        b2 == replace(b1, BS, <<BS, BS>>)
        b3 == replace(b2, SQ, <<SQ, BS, SQ, SQ>>)
    IN  <<SQ>> \o b3 \o <<SQ>>

\* _echo_quote(bytestring): three replacements one after the other, the
\* backslashes first, then the NUL bytes, then the single quotes.
_echo_quote(bytestring) ==
    LET b1 == replace(bytestring, BS, <<BS, BS>>)
        b2 == replace(b1, NUL, <<BS, "x", "0", "0">>)
        b3 == replace(b2, SQ, <<SQ, BS, SQ, SQ>>)
    IN  <<SQ>> \o b3 \o <<SQ>>

\* for arg in argv: write(shell_quote(arg)); write(b' ')
RECURSIVE write_args(_)
write_args(argv) ==
    IF argv = <<>> THEN <<>>
    ELSE shell_quote(Head(argv)) \o <<SP>> \o write_args(Tail(argv))

\* The statements of run_command after start_shell, in the order of the
\* code, with the environment sourced after the prelude instead of before.
statement_after_prelude_first(pc) ==
    CASE pc = "cd" -> "prelude"
      [] pc = "prelude" -> "env"
      [] pc = "env" -> "stdin_text"
      [] pc = "stdin_text" -> "argv"
      [] pc = "argv" -> "exit"
      [] pc = "exit" -> "flush"
      [] pc = "flush" -> "wait"
      [] pc = "wait" -> "return"

\* The statements of run_command after start_shell, in the order of the
\* code: the statement that follows the statement pc.
statement_after(pc) ==
    CASE pc = "cd" -> "env"
      [] pc = "env" -> "prelude"
      [] pc = "prelude" -> "stdin_text"
      [] pc = "stdin_text" -> "argv"
      [] pc = "argv" -> "exit"
      [] pc = "exit" -> "flush"
      [] pc = "flush" -> "wait"
      [] pc = "wait" -> "return"

\* command.stdin.write(bytes), and on to the next statement.
stdin_write(bytes) ==
    /\ shstdin' = [shstdin EXCEPT !.written = @ \o bytes]
    /\ shcall' = [shcall EXCEPT !.pc = statement_after(shcall.pc)]
    /\ UNCHANGED nonShellVars

InitShell ==
    /\ IdleShell
    /\ InitCmd
    /\ IdleFilter
    /\ IdleHost
    /\ IdleLoad
    /\ IdleLookup
    /\ IdleQuote
    /\ IdleFiles

\* run_command(argv, set_env, stdin_text, bg=bg, cwd=cwd) on a host with the
\* given prelude: transport.start_shell gives a command with a new stdin.
Shell_start_shell ==
    /\ shcall.pc \in {"none", "return"}
    /\ \E argv \in ShellArgvs, set_env \in BOOLEAN, stdin_text \in StdinTexts,
          bg \in BOOLEAN, cwd \in Cwds, command_prelude \in Preludes :
            shcall' = [pc |-> "cd", argv |-> argv, set_env |-> set_env,
                       stdin_text |-> stdin_text, bg |-> bg, cwd |-> cwd,
                       command_prelude |-> command_prelude,
                       waited |-> FALSE, flushed_at_wait |-> <<>>]
    /\ shstdin' = [written |-> <<>>, flushed |-> <<>>]
    /\ UNCHANGED nonShellVars

\* if cwd is None: cwd = self.test_dir;  write(b'cd %s\n' % shell_quote(cwd))
Shell_cd ==
    /\ shcall.pc = "cd"
    /\ LET cwd == IF shcall.cwd = None THEN test_dir ELSE shcall.cwd[1]
       IN stdin_write(<<"cd ">> \o shell_quote(cwd) \o <<"\n">>)

\* if set_env: write(b'. %s\n' % shell_quote(self.env_sh_path))
Shell_set_env ==
    /\ shcall.pc = "env"
    /\ stdin_write(IF shcall.set_env
                   THEN <<". ">> \o shell_quote(env_sh_path) \o <<"\n">>
                   ELSE <<>>)

\* if self.command_prelude: write(self.command_prelude)
Shell_command_prelude ==
    /\ shcall.pc = "prelude"
    /\ stdin_write(IF shcall.command_prelude # <<>>
                   THEN shcall.command_prelude
                   ELSE <<>>)

\* if stdin_text: write(b"echo -en "); write(_echo_quote(stdin_text));
\* write(b" | ").  None and the empty string are both false.
Shell_stdin_text ==
    /\ shcall.pc = "stdin_text"
    /\ stdin_write(IF shcall.stdin_text # None /\ shcall.stdin_text[1] # <<>>
                   THEN <<"echo -en ">> \o _echo_quote(shcall.stdin_text[1])
                        \o <<" | ">>
                   ELSE <<>>)

\* if isinstance(argv, basestring): write(b'('); write(argv); write(b')')
\* else: every argument shell-quoted and followed by a space.
Shell_argv ==
    /\ shcall.pc = "argv"
    /\ stdin_write(IF shcall.argv.basestring
                   THEN <<"(">> \o shcall.argv.value \o <<")">>
                   ELSE write_args(shcall.argv.value))

\* command.stdin.write(b'\nexit\n')
Shell_exit ==
    /\ shcall.pc = "exit"
    /\ stdin_write(<<"\nexit\n">>)

\* command.stdin.flush()
Shell_flush ==
    /\ shcall.pc = "flush"
    /\ shstdin' = [shstdin EXCEPT !.flushed = shstdin.written]
    /\ shcall' = [shcall EXCEPT !.pc = statement_after(shcall.pc)]
    /\ UNCHANGED nonShellVars

\* if not bg: command.wait();  return command
Shell_wait ==
    /\ shcall.pc = "wait"
    /\ shcall' = [shcall EXCEPT !.pc = statement_after(shcall.pc),
                                !.waited = ~shcall.bg,
                                !.flushed_at_wait =
                                    IF shcall.bg THEN <<>> ELSE shstdin.flushed]
    /\ UNCHANGED <<shstdin, nonShellVars>>

NextShell ==
    \/ Shell_start_shell
    \/ Shell_cd
    \/ Shell_set_env
    \/ Shell_command_prelude
    \/ Shell_stdin_text
    \/ Shell_argv
    \/ Shell_exit
    \/ Shell_flush
    \/ Shell_wait

SpecShell == InitShell /\ [][NextShell]_vars

(***************************************************************************)
(* The extra shell hop of stdin_text: run_command writes                   *)
(* echo -en <_echo_quote(stdin_text)> | command, the remote bash reads the *)
(* line and its echo builtin writes the command's stdin.                   *)
(***************************************************************************)
NL == "NL"
EchoChars == {BS, SQ, NUL, "x", "0", "-", "n"}
StdinBytes == UNION {[1..n -> EchoChars] : n \in 0..MaxArgLen}

\* bash's echo: a leading argument that is a dash followed by letters of
\* n, e, E only is taken as options.
is_option(word) ==
    /\ Len(word) >= 2
    /\ word[1] = "-"
    /\ \A k \in 2..Len(word) : word[k] \in {"n", "e", "E"}

\* The last of e and E in an option word decides, if there is one.
RECURSIVE escapes_after(_, _)
escapes_after(word, e) ==
    IF word = <<>> THEN e
    ELSE escapes_after(Tail(word),
                       IF Head(word) = "e" THEN TRUE
                       ELSE IF Head(word) = "E" THEN FALSE ELSE e)

\* echo -e: \\ is a backslash, \n a newline, \x with one or two hex digits
\* and \0 with up to three octal digits a byte (here always the NUL byte:
\* 0 is the only digit of the alphabet); any other backslash stays.
RECURSIVE echo_escapes(_)
echo_escapes(string) ==
    IF string = <<>> THEN <<>>
    ELSE IF Head(string) # BS \/ Len(string) = 1
    THEN <<Head(string)>> \o echo_escapes(Tail(string))
    ELSE LET c == string[2]
             digits(max) ==
                 CHOOSE d \in 0..max :
                     /\ \A k \in 1..d : Len(string) >= 2 + k /\ string[2 + k] = "0"
                     /\ d = max \/ Len(string) < 3 + d \/ string[3 + d] # "0"
             rest(k) == SubSeq(string, k, Len(string))
         IN  IF c = BS THEN <<BS>> \o echo_escapes(rest(3))
             ELSE IF c = "n" THEN <<NL>> \o echo_escapes(rest(3))
             ELSE IF c = "x" /\ digits(2) > 0
             THEN <<NUL>> \o echo_escapes(rest(3 + digits(2)))
             ELSE IF c = "0"
             THEN <<NUL>> \o echo_escapes(rest(3 + digits(3)))
             ELSE <<BS>> \o echo_escapes(rest(2))

\* The arguments of echo joined by single spaces.
RECURSIVE join_words(_)
join_words(args) ==
    IF args = <<>> THEN <<>>
    ELSE IF Len(args) = 1 THEN args[1]
    ELSE args[1] \o <<SP>> \o join_words(Tail(args))

\* The echo builtin of bash: what it writes for its arguments, e and n
\* being the options read so far.
RECURSIVE echo(_, _, _)
echo(args, e, n) ==
    IF args # <<>> /\ is_option(Head(args))
    THEN echo(Tail(args), escapes_after(Head(args), e),
              n \/ \E k \in 2..Len(Head(args)) : Head(args)[k] = "n")
    ELSE (IF e THEN echo_escapes(join_words(args)) ELSE join_words(args))
         \o (IF n THEN <<>> ELSE <<NL>>)

\* The line run_command writes up to the pipe sign.
echo_line(bytestring) ==
    <<"e", "c", "h", "o", SP, "-", "e", "n", SP>> \o _echo_quote(bytestring)

InitEcho ==
    /\ arg \in StdinBytes
    /\ quoted = None
    /\ words = None
    /\ InitCmd
    /\ IdleFilter
    /\ IdleHost
    /\ IdleLoad
    /\ IdleLookup
    /\ IdleFiles
    /\ IdleShell

\* run_command: write(b"echo -en "); write(_echo_quote(stdin_text))
EchoQuote ==
    /\ quoted = None
    /\ quoted' = Some(echo_line(arg))
    /\ UNCHANGED <<arg, words, nonQuoteVars>>

\* The remote bash reads the line and runs echo: words is what the command
\* after the pipe finds on its stdin.
EchoRuns ==
    /\ quoted # None
    /\ words = None
    /\ LET line == sh_read(quoted[1], 1, "plain", <<>>, FALSE, <<>>) IN
        words' = Some([unterminated |-> line.unterminated,
                       stdin |-> echo(Tail(line.words), FALSE, FALSE)])
    /\ UNCHANGED <<arg, quoted, nonQuoteVars>>

NextEcho ==
    \/ EchoQuote
    \/ EchoRuns

SpecEcho == InitEcho /\ [][NextEcho]_vars

(***************************************************************************)
(* Remote file operations of the two transports                            *)
(* (pytest_multihost/transport.py).  The remote side is one directory and  *)
(* the files in it.                                                        *)
(***************************************************************************)
FileNames == {"f", "g"}
Contents == {"x", "y"}
Strategies == {"ParamikoTransport", "OpenSSHTransport"}

\* The remote directory: whether it exists, and for each file name the
\* contents of the file of that name (None when there is no such file).
RemoteDirs ==
    {[dir |-> FALSE, files |-> [f \in FileNames |-> None]]}
    \cup {[dir |-> TRUE, files |-> fl] :
            fl \in [FileNames -> {None} \cup {Some(c) : c \in Contents}]}

\* What the remote side makes of an operation: the exit status of the
\* program run for it (cat, tee, mv, rm, mkdir, rmdir), the bytes it prints
\* and the directory afterwards.  The sftp server fails in the same cases.
remote_side(op, a, b, dir) ==
    LET ok(out, after) == [returncode |-> 0, stdout |-> out, fs |-> after]
        failed == [returncode |-> 1, stdout |-> None, fs |-> dir]
    IN
    CASE op = "get_file_contents" ->
           IF dir.files[a] # None THEN ok(dir.files[a], dir) ELSE failed
      [] op = "put_file_contents" ->
           IF dir.dir
           THEN ok(Some(b), [dir EXCEPT !.files[a] = Some(b)])
           ELSE failed
      [] op = "rename_file" ->
           IF dir.files[a] # None
           THEN ok(None, [dir EXCEPT !.files[a] = None,
                                     !.files[b] = dir.files[a]])
           ELSE failed
      [] op = "remove_file" ->
           IF dir.files[a] # None
           THEN ok(None, [dir EXCEPT !.files[a] = None])
           ELSE failed
      [] op = "mkdir" ->
           IF ~dir.dir THEN ok(None, [dir EXCEPT !.dir = TRUE]) ELSE failed
      [] op = "rmdir" ->
           IF dir.dir /\ \A f \in FileNames : dir.files[f] = None
           THEN ok(None, [dir EXCEPT !.dir = FALSE])
           ELSE failed

\* ParamikoTransport: every operation goes through self.sftp, which raises
\* IOError when the server reports a failure.
ParamikoTransport_exc(op, returncode) ==
    IF returncode # 0 THEN "IOError" ELSE "none"

\* OpenSSHTransport: get_file_contents waits with raiseonerr=False and
\* raises IOError itself; the others call cmd.wait(), which raises by the
\* command's raiseonerr attribute (true since Command.__init__);
\* remove_file and rename_file check the exit status after that wait.
OpenSSHTransport_exc(op, returncode) ==
    CASE op = "get_file_contents" ->
           IF returncode # 0 THEN "IOError" ELSE "none"
      [] op \in {"mkdir", "rmdir", "put_file_contents"} ->
           IF raises(TRUE, Some(returncode))
           THEN "CalledProcessError" ELSE "none"
      [] op \in {"remove_file", "rename_file"} ->
           IF raises(TRUE, Some(returncode)) THEN "CalledProcessError"
           ELSE IF returncode # 0 THEN "IOError" ELSE "none"

\* One file operation of the transport in use: what it raises, what it
\* returns, and the remote directory afterwards.
file_operation(op, a, b) ==
    LET r == remote_side(op, a, b, fs)
        exc == IF strategy = "ParamikoTransport"
               THEN ParamikoTransport_exc(op, r.returncode)
               ELSE OpenSSHTransport_exc(op, r.returncode)
    IN
    /\ fs' = r.fs
    /\ fileop' = [op |-> op, a |-> a, b |-> b, exc |-> exc,
                  failed |-> r.returncode # 0,
                  result |-> IF exc = "none" /\ op = "get_file_contents"
                             THEN r.stdout ELSE None]

InitFiles ==
    /\ strategy \in Strategies
    /\ fs \in RemoteDirs
    /\ fileop = [op |-> "none"]
    /\ InitCmd
    /\ IdleFilter
    /\ IdleHost
    /\ IdleLoad
    /\ IdleLookup
    /\ IdleQuote
    /\ IdleShell

get_file_contents(filename) ==
    /\ file_operation("get_file_contents", filename, "")
    /\ UNCHANGED <<strategy, nonFileVars>>

put_file_contents(filename, contents) ==
    /\ file_operation("put_file_contents", filename, contents)
    /\ UNCHANGED <<strategy, nonFileVars>>

rename_file(oldpath, newpath) ==
    /\ file_operation("rename_file", oldpath, newpath)
    /\ UNCHANGED <<strategy, nonFileVars>>

remove_file(filepath) ==
    /\ file_operation("remove_file", filepath, "")
    /\ UNCHANGED <<strategy, nonFileVars>>

mkdir ==
    /\ file_operation("mkdir", "", "")
    /\ UNCHANGED <<strategy, nonFileVars>>

rmdir ==
    /\ file_operation("rmdir", "", "")
    /\ UNCHANGED <<strategy, nonFileVars>>

NextFiles ==
    \/ \E filename \in FileNames : get_file_contents(filename)
    \/ \E filename \in FileNames, contents \in Contents :
           put_file_contents(filename, contents)
    \/ \E oldpath \in FileNames : \E newpath \in FileNames \ {oldpath} :
           rename_file(oldpath, newpath)
    \/ \E filepath \in FileNames : remove_file(filepath)
    \/ mkdir
    \/ rmdir

SpecFiles == InitFiles /\ [][NextFiles]_vars

(***************************************************************************)
(* Vocabulary of the properties of the matcher.                            *)
(***************************************************************************)
\* The domain type a descriptor asks for.
TypeWanted(desc) == IF desc.type \in DomainTypes THEN desc.type ELSE "default"

\* The number of hosts of role r a descriptor asks for.
Wanted(desc, r) == IF r \in DOMAIN desc.hosts THEN desc.hosts[r] ELSE 0

CountRole(hosts, r) == Cardinality({p \in 1..Len(hosts) : hosts[p].role = r})

\* A domain has the descriptor's type and enough hosts of every role.
Suits(dom, desc) ==
    /\ dom.type = TypeWanted(desc)
    /\ \A r \in Roles : CountRole(dom.hosts, r) >= Wanted(desc, r)

DistinctTypes(D) ==
    \A a, b \in 1..Len(D) : a # b => TypeWanted(D[a]) # TypeWanted(D[b])

Called == outcome.exc # "uncalled"
Succeeded == outcome.exc = "none"

\* The domain of that name as it was when the filter call began.
OrigDomain(name) ==
    CHOOSE d \in {domains0[k] : k \in 1..Len(domains0)} : d.name = name

\* Of a host list, the first Wanted(desc, role) hosts of every role, in order.
FirstN(hosts, desc) ==
    SelectSeq(hosts, LAMBDA h :
        LET p == CHOOSE q \in 1..Len(hosts) : hosts[q] = h IN
        Cardinality({q \in 1..p : hosts[q].role = h.role}) <= Wanted(desc, h.role))

\* The descriptors of the request that no domain of the topology suits.
Unsuited ==
    {i \in 1..Len(descriptions0) :
        \A k \in 1..Len(domains0) : ~Suits(domains0[k], descriptions0[i])}

(***************************************************************************)
(* Properties of Config.filter (SpecFilter).                               *)
(***************************************************************************)
\* C1: after a filter that returned normally on descriptors with pairwise
\* distinct types, config.domains has one domain per descriptor, domain i has
\* the type of descriptor i ("default" when omitted) and holds, of every role,
\* exactly the number of hosts descriptor i asked for (none of a role that is
\* unrequested or requested with count 0).
C1_FilterExact ==
    (Succeeded /\ DistinctTypes(descriptions0)) =>
        /\ Len(domains) = Len(descriptions0)
        /\ \A i \in 1..Len(descriptions0) :
            /\ domains[i].type = TypeWanted(descriptions0[i])
            /\ \A r \in Roles :
                CountRole(domains[i].hosts, r) = Wanted(descriptions0[i], r)

\* C1 witness: a successful filter of two descriptors, one without a type,
\* that dropped a host of a role requested with count 0 and a surplus host.
C1_Witness ==
    /\ Succeeded
    /\ Len(descriptions0) = 2
    /\ \E i \in 1..2 : descriptions0[i].type = NoType
    /\ \E i \in 1..2 : \E r \in DOMAIN descriptions0[i].hosts :
        /\ descriptions0[i].hosts[r] = 0
        /\ CountRole(OrigDomain(domains[i].name).hosts, r) > 0
    /\ \E i \in 1..2 : \E r \in Roles :
        /\ Wanted(descriptions0[i], r) = 1
        /\ CountRole(OrigDomain(domains[i].name).hosts, r) = 2

\* Descriptor i asks for more hosts of some role than a domain of its type has.
OverAsks(i) ==
    \E k \in 1..Len(domains0) : \E r \in Roles :
        /\ domains0[k].type = TypeWanted(descriptions0[i])
        /\ Wanted(descriptions0[i], r) > CountRole(domains0[k].hosts, r)

\* C2 (as claimed): a filter that fails with FilterError on a descriptor that
\* asks for more hosts of a role than are configured leaves config.domains and
\* every domain's host list as they were before the call, also when earlier
\* descriptors of the request were already matched.
C2_AllOrNothing ==
    (outcome.exc = "FilterError" /\ OverAsks(outcome.i)) => domains = domains0

\* C3: a request in which two descriptors have the same domain type (a missing
\* type counting as "default") ends with ValueError, never with FilterError
\* or a normal return, whatever the topology holds.
C3_DuplicateTypes ==
    (Called /\ ~DistinctTypes(descriptions0)) => outcome.exc = "ValueError"

\* C3 witness: a request with an untyped and a "default" descriptor is
\* rejected although two domains of the topology suit them.
C3_Witness ==
    /\ outcome.exc = "ValueError"
    /\ Len(descriptions0) = 2
    /\ descriptions0[1].type = NoType
    /\ descriptions0[2].type = "default"
    /\ Len(domains0) = 2
    /\ \A k \in 1..2 : Suits(domains0[k], descriptions0[k])

\* C4: with distinct types, the first descriptor that no domain of the scan
\* pool suits makes the filter fail with FilterError naming that descriptor
\* (a domain matched earlier has another type, so the pool holds a suiting
\* domain exactly when the topology does); and when FilterError is raised, no
\* domain left in config.domains, the scan pool, suits the named descriptor.
C4_NoFitFails ==
    /\ (Called /\ DistinctTypes(descriptions0) /\ Unsuited # {}) =>
        /\ outcome.exc = "FilterError"
        /\ outcome.i \in Unsuited
        /\ \A j \in Unsuited : outcome.i <= j
    /\ outcome.exc = "FilterError" =>
        \A k \in 1..Len(domains) : ~Suits(domains[k], descriptions0[outcome.i])

\* C4 witness: the second descriptor asks for two hosts of a role of which a
\* domain of its type has one, and the filter fails on it.
C4_Witness ==
    /\ outcome.exc = "FilterError"
    /\ outcome.i = 2
    /\ \E r \in Roles : \E k \in 1..Len(domains0) :
        /\ Wanted(descriptions0[2], r) = 2
        /\ domains0[k].type = TypeWanted(descriptions0[2])
        /\ CountRole(domains0[k].hosts, r) = 1

\* C5: after a successful filter, domain i of config.domains is a domain of
\* the topology that suited descriptor i, each domain appears once, and the
\* domains matched by no descriptor are gone.
C5_DescriptorOrder ==
    Succeeded =>
        /\ Len(domains) = Len(descriptions0)
        /\ \A i \in 1..Len(domains) :
            \E k \in 1..Len(domains0) :
                /\ domains0[k].name = domains[i].name
                /\ Suits(domains0[k], descriptions0[i])
        /\ \A i, j \in 1..Len(domains) :
            i # j => domains[i].name # domains[j].name

\* C5 witness: two domains were matched and now stand in the reverse of
\* their configuration order.
C5_Witness ==
    /\ Succeeded
    /\ Len(domains) = 2
    /\ domains[1].name > domains[2].name

\* C6: a matched domain keeps, of every requested role, the first N hosts of
\* its host list, in their original order.
C6_KeepFirstN ==
    Succeeded =>
        \A i \in 1..Len(domains) :
            domains[i].hosts =
                FirstN(OrigDomain(domains[i].name).hosts, descriptions0[i])

\* C6 witness: a domain with two hosts of one role, asked for one, keeps the
\* first; another matched domain keeps two hosts of different roles.
C6_Witness ==
    /\ Succeeded
    /\ \E i \in 1..Len(domains) :
        LET orig == OrigDomain(domains[i].name).hosts IN
        /\ Len(orig) = 2
        /\ orig[1].role = orig[2].role
        /\ domains[i].hosts = <<orig[1]>>
    /\ \E i \in 1..Len(domains) :
        /\ Len(domains[i].hosts) = 2
        /\ domains[i].hosts[1].role # domains[i].hosts[2].role

\* The first domain of the topology, in its order, that suits descriptor i
\* (its name, which is its place in the topology); 0 when none does.
EarliestSuiting(i) ==
    LET suiting == {k \in 1..Len(domains0) :
                        Suits(domains0[k], descriptions0[i])}
    IN  IF suiting = {} THEN 0
        ELSE CHOOSE k \in suiting : \A j \in suiting : k <= j

\* C23: domain selection is first-fit.  With distinct types the pool a
\* descriptor is matched against holds every domain of its type, so after a
\* successful filter domain i of config.domains is the earliest domain of
\* the topology that suits descriptor i, however many hosts a later suiting
\* domain has too many, and no domain is selected twice; and when
\* descriptor i fails, the pool left behind is the topology less the
\* earliest suiting domains of the descriptors before i.
C23_FirstFit ==
    /\ Succeeded =>
        /\ \A i \in 1..Len(domains) : domains[i].name = EarliestSuiting(i)
        /\ \A i, j \in 1..Len(domains) :
            i # j => domains[i].name # domains[j].name
    /\ outcome.exc = "FilterError" =>
        domains = SelectSeq(domains0, LAMBDA d :
                    \A j \in 1..(outcome.i - 1) : d.name # EarliestSuiting(j))

\* Two domains suit the descriptor; the second has exactly the hosts asked
\* for, the first has one more, and the first was selected.
C23_Witness ==
    /\ Succeeded
    /\ Len(domains0) = 2
    /\ Len(descriptions0) = 1
    /\ Suits(domains0[1], descriptions0[1])
    /\ Suits(domains0[2], descriptions0[1])
    /\ Len(domains0[1].hosts) = 2
    /\ Len(domains0[2].hosts) = 1
    /\ Len(domains) = 1
    /\ domains[1].name = domains0[1].name
    /\ Len(domains[1].hosts) = 1

\* The hosts of role r that domain dom lacks for the counts of desc.
Missing(dom, desc, r) ==
    IF Wanted(desc, r) > CountRole(dom.hosts, r)
    THEN Wanted(desc, r) - CountRole(dom.hosts, r) ELSE 0

\* The domain cannot satisfy the counts Domain.filter was called with.
Short ==
    /\ Called
    /\ \E r \in Roles : Missing(domains0[1], descriptions0[1], r) > 0

\* C24: Domain.filter called with host counts the domain cannot satisfy
\* fails with FilterError, the error of Config.filter for an unsatisfiable
\* descriptor, and the error carries for every role of the mapping the
\* number of hosts still missing.
C24_PruneRaisesFilterError ==
    Short =>
        /\ outcome.exc = "FilterError"
        /\ \A r \in DOMAIN descriptions[1].hosts :
            descriptions[1].hosts[r] = Missing(domains0[1], descriptions0[1], r)

\* Domain.filter was called for two replicas on a domain with one.
C24_Witness ==
    /\ Short
    /\ outcome.exc # "none"
    /\ CountRole(domains0[1].hosts, "replica") = 1
    /\ Wanted(descriptions0[1], "replica") = 2
    /\ descriptions[1].hosts["replica"] = 1

\* What does hold of a Domain.filter that cannot be satisfied: it raises
\* ValueError, leaves the hosts of the domain as they were, and the mapping
\* holds the missing counts.
C24_PruneRaisesValueError ==
    Short =>
        /\ outcome.exc = "ValueError"
        /\ domains = domains0
        /\ \A r \in DOMAIN descriptions[1].hosts :
            descriptions[1].hosts[r] = Missing(domains0[1], descriptions0[1], r)

(***************************************************************************)
(* Properties of Command and run_command (SpecCommands).                   *)
(***************************************************************************)
Returned == result.exc # "pending"
Raised == result.exc = "CalledProcessError"

\* C7: a command is ended at most once and a done command exactly once:
\* stdin was closed once, each reader thread joined once and the exit status
\* read once, whatever the number of wait() calls and with-block exits; a
\* wait() or with-block exit on a command that is already done returns at
\* once, without raising, the command's cached returncode.
C7_DoneOnce ==
    /\ \A c \in 1..Len(commands) :
        /\ commands[c].n_close <= 1
        /\ commands[c].n_join <= 2
        /\ commands[c].n_recv <= 1
        /\ commands[c]._done =>
            /\ commands[c].n_close = 1
            /\ commands[c].n_join = 2
            /\ commands[c].n_recv = 1
            /\ commands[c].returncode = remote[c].status
    /\ result.was_done =>
        /\ main.pc = "idle"
        /\ result.exc = "none"
        /\ result.code = commands[result.cmd].returncode
        /\ result.code # None

\* C7 witness: a wait(raiseonerr=True) on a command that is already done with
\* exit status 1 has returned.
C7_Witness ==
    /\ result.op = "wait"
    /\ result.was_done
    /\ result.raiseonerr = Some(TRUE)
    /\ result.code = Some(1)
    /\ commands[result.cmd].n_close = 1

C9_ForegroundBackground ==
    /\ (result.op = "run_command" /\ ~result.bg) =>
        /\ (result.exc = "pending") = (main.pc # "idle")
        /\ result.exc = "none" =>
            LET cmd == commands[result.cmd] IN
            /\ result.cmd \in held
            /\ cmd._done
            /\ cmd.returncode # None
            /\ cmd.stdout_bytes = Some(remote[result.cmd].wrote_out)
            /\ cmd.stderr_bytes = Some(remote[result.cmd].wrote_err)
    /\ (result.op = "run_command" /\ result.bg) =>
        LET cmd == commands[result.cmd] IN
        /\ result.exc = "none"
        /\ main.pc = "idle"
        /\ result.cmd \in held
        /\ ~cmd._done
        /\ cmd.returncode = None
        /\ cmd.stdin = "open"
        /\ cmd.n_close = 0 /\ cmd.n_join = 0 /\ cmd.n_recv = 0
    /\ (result.op \in {"wait", "exit"} /\ Returned) =>
        LET cmd == commands[result.cmd] IN
        /\ cmd._done
        /\ cmd.stdout_bytes = Some(remote[result.cmd].wrote_out)
        /\ cmd.stderr_bytes = Some(remote[result.cmd].wrote_err)

\* C9 witness (test_background): 'cat fifo' was started in the background,
\* a foreground command wrote the text to the fifo, and the wait() on the
\* background command then returned with the text as its stdout.
C9_Witness ==
    /\ Len(commands) = 2
    /\ commands[1].argv = "cat fifo"
    /\ commands[2].argv = "cat > fifo"
    /\ commands[2]._done
    /\ result.op = "wait"
    /\ result.cmd = 1
    /\ ~result.was_done
    /\ result.exc = "none"
    /\ commands[1].stdout_bytes = Some(<<FifoText>>)
    /\ commands[1].returncode = Some(0)

\* C9 witness: a background run_command has returned while the remote
\* process is still running.
C9_WitnessRunning ==
    /\ result.op = "run_command"
    /\ result.bg
    /\ remote[result.cmd].alive

C10_WitnessNoRaise ==
    /\ result.op = "exit"
    /\ result.exc = "none"
    /\ ~result.was_done
    /\ result.raiseonerr = Some(FALSE)
    /\ result.code = Some(1)

(***************************************************************************)
(* Properties of the draining of stdout and stderr.                        *)
(***************************************************************************)
\* C11: whenever a stream of a command holds unread data, the reader loop of
\* that stream can take its next line, whatever the other stream, the other
\* reader and the waiting test are doing: the harness is never blocked on
\* one stream while data of the other stream has no reader, so a process
\* blocked on a full pipe is always unblocked by the harness.
C11_NoStreamStarved ==
    \A c \in 1..Len(commands), t \in StreamNames :
        Pipe(remote[c], t) # <<>> => ENABLED read_line(c, t)

\* The test is blocked joining the stdout reader, stdout is empty, and the
\* process, with lines left to write, has filled stderr after the stderr
\* reader took an earlier line.
C11_Witness ==
    /\ main.pc = "joining"
    /\ main.joining = "out"
    /\ remote[1].alive
    /\ remote[1].out = <<>>
    /\ Len(remote[1].err) = PipeCap
    /\ remote[1].written < MaxDrain
    /\ commands[1]._stderr_lines # <<>>

(***************************************************************************)
(* Properties of a Host's transport.                                       *)
(***************************************************************************)
\* The login a Transport built from the given credentials uses: the key if
\* there is one, else the password.
LoginOf(creds) ==
    IF creds[3] # None THEN <<creds[1], "key", creds[3][1]>>
    ELSE IF creds[2] # None THEN <<creds[1], "password", creds[2][1]>>
    ELSE <<>>

\* C12: the transport of a host is memoized.  Once an access has returned a
\* Transport, every later access returns that same object until
\* reset_connection; it was built from the credentials in force at that first
\* access, and a command run on the host works or fails by those, whatever
\* the host's credentials are by now: a command that follows one that worked
\* works too unless the connection was reset in between.  The first access
\* after reset_connection builds a new Transport from the credentials of the
\* host at that moment, and fails when these are bad.
C12_TransportMemoized ==
    /\ since # None =>
        /\ ahost._transport = Some(since[1].transport)
        /\ last.transport = Some(since[1].transport)
        /\ since[1].transport.login = LoginOf(since[1].creds)
        /\ last.exc = "none" <=> LoginOf(since[1].creds) \in Authorized
    /\ (last.prev = "none" /\ ~last.was_reset) => last.exc = "none"
    /\ (last.was_reset /\ last.transport # None) =>
        /\ last.transport[1].id = n_built
        /\ last.transport[1].login = LoginOf(last.creds)
    /\ (last.was_reset /\ LoginOf(last.creds) \notin Authorized) =>
        last.exc \notin {"none", "never"}

\* A command has just worked on a host whose password was made bad, and
\* whose key was removed, after an earlier command worked (test_reset, before
\* the reset).
C12_Witness ==
    /\ last.exc = "none"
    /\ last.prev = "none"
    /\ ~last.was_reset
    /\ last.creds = <<"root", Some("BAD PASSWORD"), None>>

\* test_reset, after the reset: the command that worked now fails.
C12_WitnessReset ==
    /\ last.exc \in {"AuthenticationException", "RuntimeError"}
    /\ last.prev = "none"
    /\ last.was_reset
    /\ last.creds = <<"root", Some("BAD PASSWORD"), None>>

(***************************************************************************)
(* Properties of loading and exporting a configuration.                    *)
(***************************************************************************)
\* The hostname the configured name n stands for in a domain named dn.
DerivedHostname(n, dn) ==
    IF ~has_dot(n) THEN n \o <<Dot>> \o dn
    ELSE IF n[Len(n)] = Dot THEN SubSeq(n, 1, Len(n) - 1)
    ELSE n

\* The configuration was loaded and its domains are as loaded.
LoadedUnfiltered == load.exc = "none" /\ filtered = Unfiltered

\* C13: on load, a configured host name without a dot gets the name of its
\* domain appended, and a configured host name with a dot is the hostname
\* as it stands, less one trailing dot, whatever the domain.
C13_HostnameDerivation ==
    LoadedUnfiltered =>
        \A d \in 1..Len(conf0.domains) :
            \A k \in 1..Len(conf0.domains[d].hosts) :
                config[1].domains[d].hosts[k].hostname =
                    DerivedHostname(conf0.domains[d].hosts[k].name,
                                    conf0.domains[d].name)

\* Two Config objects with the same domains in the same order, of the same
\* names and types, and per host the same hostname, role, external_hostname
\* and ip.
SameTopology(c1, c2) ==
    /\ Len(c1.domains) = Len(c2.domains)
    /\ \A d \in 1..Len(c1.domains) :
        /\ c1.domains[d].name = c2.domains[d].name
        /\ c1.domains[d].type = c2.domains[d].type
        /\ Len(c1.domains[d].hosts) = Len(c2.domains[d].hosts)
        /\ \A k \in 1..Len(c1.domains[d].hosts) :
            LET h1 == c1.domains[d].hosts[k]
                h2 == c2.domains[d].hosts[k]
            IN  /\ h1.hostname = h2.hostname
                /\ h1.role = h2.role
                /\ h1.external_hostname = h2.external_hostname
                /\ h1.ip = h2.ip

\* C14: the export of a loaded Config loads again, into a Config with the
\* same topology as the exported one, and exporting that gives the same
\* mapping again.
C14_RoundTrip ==
    reloaded # Unloaded =>
        /\ reloaded.exc = "none"
        /\ SameTopology(exported[1].config, reloaded.config)
        /\ Config_to_dict(reloaded.config) = exported[1].dct

\* The unknown keys of the mapping, at the three levels.
ExtraTop(m) ==
    DOMAIN m \ (init_args \cup {"root_ssh_key_filename", "root_password",
                                "windows_test_dir"})
ExtraDomain(m) ==
    UNION {DOMAIN m.domains[d] \ {"type", "name", "hosts"} :
            d \in 1..Len(m.domains)}
ExtraHost(m) ==
    UNION {UNION {DOMAIN m.domains[d].hosts[k] \ HostKeys :
                    k \in 1..Len(m.domains[d].hosts)} :
            d \in 1..Len(m.domains)}

\* C15: a mapping with an unknown key at the top level, in a domain or in a
\* host does not load: from_dict raises the configuration error, which names
\* unknown keys, and returns no Config.
C15_ExtraKeysRejected ==
    (load # Unloaded /\ ExtraTop(conf0) \cup ExtraDomain(conf0)
                            \cup ExtraHost(conf0) # {}) =>
        /\ load.exc = "ValueError"
        /\ load.keys \subseteq
                ExtraTop(conf0) \cup ExtraDomain(conf0) \cup ExtraHost(conf0)
        /\ config = None

\* C16: loading a Config from a mapping, and filtering the Config, leave the
\* mapping of the caller as it was.
C16_MappingUntouched ==
    load # Unloaded => conf = conf0

(***************************************************************************)
(* Properties of the lookups.                                              *)
(***************************************************************************)
\* The host at place p = <<d, k>> of the domains has the name.
HasName(doms, p, name) ==
    /\ p[1] <= Len(doms)
    /\ p[2] <= Len(doms[p[1]].hosts)
    /\ LET h == doms[p[1]].hosts[p[2]] IN
        \/ name = h.hostname
        \/ name = h.external_hostname
        \/ name = h.shortname

\* Place p comes before place q: an earlier domain, or the same domain and
\* an earlier host.
Before(p, q) == p[1] < q[1] \/ (p[1] = q[1] /\ p[2] <= q[2])

\* C17: host_by_name answers with the first host, in domain order and then
\* host order, whose hostname, external_hostname or shortname is the name,
\* also when earlier domains do not have the name; it raises LookupError
\* exactly when no host of any domain has it.
C17_HostByName ==
    lookup.op = "host_by_name" =>
        LET places == (1..MaxDomains) \X (1..MaxHosts)
            M == {p \in places : HasName(lookup.doms, p, lookup.name)}
        IN  IF M = {} THEN lookup.exc = "LookupError"
            ELSE /\ lookup.exc = "none"
                 /\ <<lookup.d, lookup.k>> \in M
                 /\ \A p \in M : Before(<<lookup.d, lookup.k>>, p)

\* The name is the external_hostname only of the first host of the second
\* domain, and a name of its second host too; the first domain has a host,
\* none of that name.
C17_Witness ==
    /\ lookup.op = "host_by_name"
    /\ lookup.exc = "none"
    /\ lookup.d = 2
    /\ lookup.k = 1
    /\ lookup.doms[1].hosts # <<>>
    /\ Len(lookup.doms[2].hosts) = 2
    /\ HasName(lookup.doms, <<2, 2>>, lookup.name)
    /\ lookup.name # lookup.doms[2].hosts[1].hostname
    /\ lookup.name # lookup.doms[2].hosts[1].shortname

\* The places of the hosts of a role in a host list, and the i-th of them.
PlacesOfRole(hosts, role) == {k \in 1..Len(hosts) : hosts[k].role = role}
NthPlace(P, i) == CHOOSE k \in P : Cardinality({j \in P : j < k}) = i - 1

\* C18: hosts_by_role answers with the hosts of the role, all of them and in
\* the order of the domain's host list; host_by_role with the first of them,
\* or LookupError when there is none.  After a successful filter the d-th
\* domain holds, of each role, the number of hosts the d-th descriptor asked
\* for, and the lookups answer with those only.
C18_ByRole ==
    lookup.op \in {"hosts_by_role", "host_by_role"} =>
        LET hosts == lookup.doms[lookup.d].hosts
            P == PlacesOfRole(hosts, lookup.role)
            pruned == lookup.filter.exc = "none"
            asked == Wanted(lookup.filter.descriptions[lookup.d], lookup.role)
        IN  /\ lookup.op = "hosts_by_role" =>
                /\ lookup.exc = "none"
                /\ Len(lookup.hosts) = Cardinality(P)
                /\ \A i \in 1..Len(lookup.hosts) :
                        lookup.hosts[i] = hosts[NthPlace(P, i)]
                /\ pruned => Len(lookup.hosts) = asked
            /\ lookup.op = "host_by_role" =>
                /\ IF P = {} THEN lookup.exc = "LookupError"
                   ELSE /\ lookup.exc = "none"
                        /\ lookup.host = Some(hosts[NthPlace(P, 1)])
                /\ pruned => (lookup.exc = "LookupError" <=> asked = 0)

\* host_by_role has answered with the first of two different hosts of the
\* role.
C18_Witness ==
    /\ lookup.op = "host_by_role"
    /\ lookup.exc = "none"
    /\ LET hosts == lookup.doms[lookup.d].hosts IN
        /\ Len(hosts) = 2
        /\ hosts[1].role = lookup.role
        /\ hosts[2].role = lookup.role
        /\ hosts[1] # hosts[2]

\* hosts_by_role has answered with the one master a filter left of the two
\* masters the configuration has.
C18_WitnessPruned ==
    /\ lookup.op = "hosts_by_role"
    /\ lookup.role = "master"
    /\ lookup.filter.exc = "none"
    /\ Len(lookup.hosts) = 1
    /\ Len(conf0.domains) = 1
    /\ Len(conf0.domains[1].hosts) = 2
    /\ \A k \in 1..2 : "role" \notin DOMAIN conf0.domains[1].hosts[k]

(***************************************************************************)
(* Properties of the quoting.                                              *)
(***************************************************************************)
\* C19: what shell_quote makes of a string is read by a POSIX shell as one
\* word, and that word is the string: quotes, spaces, dollar signs,
\* backslashes and double quotes in it all arrive as they are.
C19_ShellQuoteRoundTrip ==
    words # None => words[1] = [unterminated |-> FALSE, words |-> <<arg>>]

\* The shell has read the quoted form of the string a'$ (a letter, a single
\* quote, a dollar sign).
C19_Witness ==
    /\ arg = <<"a", SQ, DOLLAR>>
    /\ quoted = Some(<<SQ, "a", SQ, BS, SQ, SQ, DOLLAR, SQ>>)
    /\ words = Some([unterminated |-> FALSE, words |-> <<arg>>])

(***************************************************************************)
(* Properties of the remote file operations.                               *)
(***************************************************************************)
\* C20: a failing remote file operation (get_file_contents,
\* put_file_contents, rename_file, remove_file, mkdir, rmdir) is reported
\* to the caller as IOError, with either transport: it raises, and what it
\* raises is not the error of a command that exited with a nonzero status.
C20_FailureIsIOError ==
    (fileop.op # "none" /\ fileop.failed) => fileop.exc = "IOError"

\* A failed read through the external ssh client is reported as IOError.
C20_WitnessGet ==
    /\ strategy = "OpenSSHTransport"
    /\ fileop.op = "get_file_contents"
    /\ fileop.failed
    /\ fileop.exc = "IOError"

(***************************************************************************)
(* Properties of the credentials.                                          *)
(***************************************************************************)
\* The login a Transport constructed for credentials c = <<user, password,
\* key file>> has to use: the key when there is one, else the password.
KeyFirst(c) ==
    IF c[3] # None THEN <<c[1], "key", c[3][1]>>
    ELSE <<c[1], "password", c[2][1]>>

\* C21: credentials are checked when the connection is opened, not when the
\* configuration is loaded: loading succeeds whatever credentials the
\* configuration has, and a ParamikoTransport constructed for the host
\* fails with RuntimeError when the host has neither key file nor password,
\* and otherwise logs in with the key if there is one, else with the
\* password (or is refused by the server with that very login).
C21_CredentialsAtConnect ==
    /\ load # Unloaded => load.exc = "none"
    /\ (transport_class = "paramiko" /\ last.exc # "never" /\ last.fresh) =>
        IF last.creds[2] = None /\ last.creds[3] = None
        THEN last.exc = "RuntimeError"
        ELSE \/ /\ last.exc = "none"
                /\ last.transport[1].login = KeyFirst(last.creds)
             \/ /\ last.exc = "AuthenticationException"
                /\ KeyFirst(last.creds) \notin Authorized

\* A configuration with a key file for all hosts and a password of the host
\* was loaded; the host has the password only, and the connection was
\* opened with it.
C21_Witness ==
    /\ "ssh_key_filename" \in DOMAIN conf0
    /\ load.exc = "none"
    /\ transport_class = "paramiko"
    /\ last.fresh
    /\ last.exc = "none"
    /\ last.creds = <<"root", Some("Secret123"), None>>
    /\ last.transport[1].login = <<"root", "password", "Secret123">>

\* The credentials were taken away after the load, and only the opening of
\* the connection failed.
C21_WitnessMissing ==
    /\ load.exc = "none"
    /\ transport_class = "paramiko"
    /\ last.fresh
    /\ last.creds[2] = None /\ last.creds[3] = None
    /\ last.exc = "RuntimeError"

\* Both a key file and a password are set, and the key was used.
C21_WitnessBoth ==
    /\ transport_class = "paramiko"
    /\ last.fresh
    /\ last.exc = "none"
    /\ last.creds[2] # None /\ last.creds[3] # None
    /\ last.transport[1].login[2] = "key"

C22_WitnessMissing ==
    /\ transport_class = "openssh"
    /\ last.fresh
    /\ last.creds[2] = None /\ last.creds[3] = None
    /\ last.msg = "No SSH credentials configured"

\* A control master was started for a host with a key file.
C22_WitnessKey ==
    /\ transport_class = "openssh"
    /\ last.fresh
    /\ last.creds[3] # None
    /\ last.launched = 1

(***************************************************************************)
(* Properties of wait() and of the two reader threads (SpecDrain).         *)
(***************************************************************************)
\* C25: the steps of wait() follow one another in this order: stdin is
\* closed; then the reader threads are joined, each after it has seen
\* end-of-stream and ended; then the two buffers are joined into
\* stdout_bytes and stderr_bytes; then the exit status is read; then the
\* command is marked done.  So at every moment a step that has been taken
\* has all the earlier steps behind it.
C25_WaitOrder ==
    \A c \in 1..Len(commands) :
        LET cmd == commands[c] IN
        /\ (cmd.running_threads # StreamNames \/ cmd.n_join > 0) =>
                cmd.stdin = "closed" /\ cmd.n_close = 1
        /\ \A t \in StreamNames :
            (t \notin cmd.running_threads
                /\ ~(main.pc = "joining" /\ main.cmd = c /\ main.joining = t))
            => threads[c][t] = "ended"
        /\ (cmd.stdout_bytes # None \/ cmd.stderr_bytes # None) =>
                /\ cmd.stdout_bytes # None /\ cmd.stderr_bytes # None
                /\ cmd.running_threads = {}
                /\ cmd.n_join = 2
                /\ \A t \in StreamNames :
                    threads[c][t] = "ended" /\ Pipe(remote[c], t) = <<>>
        /\ (cmd.returncode # None \/ cmd.n_recv > 0) =>
                cmd.stdout_bytes # None /\ cmd.stderr_bytes # None
        /\ cmd._done =>
                cmd.returncode # None /\ cmd.n_recv = 1 /\ ~remote[c].alive

\* A command that wrote to both streams has been waited for to the end.
C25_Witness ==
    /\ commands[1]._done
    /\ commands[1].n_close = 1
    /\ commands[1].n_join = 2
    /\ remote[1].wrote_out # <<>>
    /\ remote[1].wrote_err # <<>>
    /\ commands[1].stdout_bytes = Some(remote[1].wrote_out)

\* wait() is between two of its steps: the buffers are joined and the exit
\* status is not yet read.
C25_WitnessMidway ==
    /\ main.pc = "recv"
    /\ commands[1].stdout_bytes # None
    /\ commands[1].returncode = None
    /\ ~commands[1]._done

\* The output attributes of a command.
Buffers(c) == <<commands[c].stdout_bytes, commands[c].stderr_bytes>>

\* C26: once wait() has ended, by returning or by raising, stdout_bytes is
\* the sequence of the lines the process wrote to stdout, each once and in
\* the order written, and stderr_bytes that of stderr, however the two
\* readers, the process and the waiting test were interleaved; and from
\* then on the two attributes do not change.
C26_BuffersComplete ==
    /\ [](\A c \in 1..Len(commands) :
            commands[c]._done =>
                /\ commands[c].stdout_bytes = Some(remote[c].wrote_out)
                /\ commands[c].stderr_bytes = Some(remote[c].wrote_err))
    /\ [][\A c \in 1..Len(commands) :
            commands[c]._done => Buffers(c)' = Buffers(c)]_vars

\* The process wrote a line to stdout, one to stderr and another to stdout,
\* and wait() has ended with an exception.
C26_Witness ==
    /\ commands[1]._done
    /\ result.exc = "CalledProcessError"
    /\ remote[1].wrote_out = <<<<"line", 1>>, <<"line", 3>>>>
    /\ remote[1].wrote_err = <<<<"line", 2>>>>
    /\ commands[1].stdout_bytes = Some(<<<<"line", 1>>, <<"line", 3>>>>)
    /\ commands[1].stderr_bytes = Some(<<<<"line", 2>>>>)

\* What wait() does with the registered threads of command c: they stay
\* registered until stdin is closed, and the buffers are joined only when
\* every thread of the command has been taken from the set, has ended and
\* was joined.
JoinedBeforeBuffers(c) ==
    /\ commands[c].stdout_bytes # None =>
        /\ commands[c].running_threads = {}
        /\ \A t \in StreamNames : threads[c][t] \in {"ended", "unstarted"}
    /\ commands[c]._done => commands[c].running_threads = {}

C28_WaitTerminates ==
    (<>(~remote[1].alive)) => ((main.pc # "idle") ~> commands[1]._done)

\* A wait() on a process that wrote at least two lines has returned.
C28_Witness ==
    /\ result.op = "wait"
    /\ result.exc = "none"
    /\ main.pc = "idle"
    /\ commands[1]._done
    /\ remote[1].written >= 2
    /\ Len(commands[1]._stdout_lines) + Len(commands[1]._stderr_lines) >= 2

\* C29: there is no timeout and no abort.  A command is done only when its
\* process has exited and both of its streams have been read to their end;
\* a wait() ends only in a step at which the process has exited; so a
\* wait() on a process that never exits never returns.
C29_NoTimeout ==
    /\ [](\A c \in 1..Len(commands) :
            commands[c]._done =>
                /\ ~remote[c].alive
                /\ \A t \in StreamNames :
                    threads[c][t] = "ended" /\ Pipe(remote[c], t) = <<>>)
    /\ [][(main.pc # "idle" /\ main'.pc = "idle") =>
            ~remote'[main.cmd].alive]_vars
    /\ ([]remote[1].alive) => [](main.pc # "idle" => [](main.pc # "idle"))

\* The test is inside wait(), joining a reader; the process is alive, has
\* written and been read, and writes nothing more for the moment.
C29_Witness ==
    /\ main.pc = "joining"
    /\ remote[1].alive
    /\ remote[1].written > 0
    /\ remote[1].out = <<>>
    /\ remote[1].err = <<>>
    /\ ~commands[1]._done

\* What the shell is to read for a call, part by part as the specification
\* lists them.
ScriptParts(c) ==
    << <<"cd ">>
         \o shell_quote(IF c.cwd = None THEN test_dir ELSE c.cwd[1])
         \o <<"\n">>,
       IF c.set_env
       THEN <<". ">> \o shell_quote(env_sh_path) \o <<"\n">>
       ELSE <<>>,
       c.command_prelude,
       IF c.stdin_text \notin {None, Some(<<>>)}
       THEN <<"echo -en ">> \o _echo_quote(c.stdin_text[1]) \o <<" | ">>
       ELSE <<>>,
       IF c.argv.basestring
       THEN <<"(">> \o c.argv.value \o <<")">>
       ELSE write_args(c.argv.value),
       <<"\nexit\n">> >>

\* The first n parts, one after the other.
RECURSIVE ScriptUpTo(_, _)
ScriptUpTo(c, n) ==
    IF n = 0 THEN <<>> ELSE ScriptUpTo(c, n - 1) \o ScriptParts(c)[n]

\* How many parts have been written when the call is at a statement.
PartsWritten(pc) ==
    CASE pc = "cd" -> 0
      [] pc = "env" -> 1
      [] pc = "prelude" -> 2
      [] pc = "stdin_text" -> 3
      [] pc = "argv" -> 4
      [] pc = "exit" -> 5
      [] OTHER -> 6

C31_DescriptorsUntouched ==
    outcome.exc # "uncalled" => descriptions = descriptions0

\* A successful call that kept two hosts of one domain: the mapping the
\* caller passed asked for them and reads zero afterwards.
C31_Witness ==
    /\ outcome.exc = "none"
    /\ Len(descriptions0) = 1
    /\ descriptions0[1].hosts = [r \in Roles |-> 1]
    /\ descriptions[1].hosts = [r \in Roles |-> 0]
    /\ Len(domains[1].hosts) = 2

\* C40: a request rejected for duplicate domain types leaves config.domains,
\* every host list and the descriptors as they were before the call.
C40_DuplicateRejectedFirst ==
    (outcome.exc = "ValueError" /\ duplicate_types(descriptions0)) =>
        /\ domains = domains0
        /\ domains = loaded
        /\ descriptions = descriptions0

\* A rejected request whose first descriptor, alone, would have matched a
\* domain with more hosts than it asks for, and would have pruned it.
C40_Witness ==
    /\ outcome.exc = "ValueError"
    /\ duplicate_types(descriptions0)
    /\ first_fit(domains0, descriptions0[1]) # 0
    /\ Config_filter(domains0, <<descriptions0[1]>>).domains # domains0
    /\ \E r \in DOMAIN descriptions0[1].hosts : descriptions0[1].hosts[r] > 0
    /\ domains = domains0

(***************************************************************************)
(* The credentials of a constructed host (SpecConstruct).                  *)
(***************************************************************************)
\* The password configured for the host itself, None when there is none.
OwnPassword == get_opt(conf0.domains[1].hosts[1], "password")

\* The key file and the password the Config hands to its hosts: those of
\* the configuration, the default key path when it has neither.
ConfigCredentials ==
    LET password == get_opt(conf0, "ssh_password")
        key == get_opt(conf0, "ssh_key_filename")
    IN  [ssh_password |-> password,
         ssh_key_filename |-> IF ~truthy(password) /\ ~truthy(key)
                              THEN Some("~/.ssh/id_rsa") ELSE key]

\* How the host got its credentials: with a password of its own the key
\* file is cleared and the password is that one; otherwise both are the
\* Config's.
CredentialsAssigned ==
    IF OwnPassword # None
    THEN ahost.ssh_key_filename = None /\ ahost.ssh_password = OwnPassword
    ELSE /\ ahost.ssh_key_filename = ConfigCredentials.ssh_key_filename
         /\ ahost.ssh_password = ConfigCredentials.ssh_password

\* A connection that was opened used the key file if the host has one.
PasswordIgnoredWithKey ==
    (last.exc = "none" /\ truthy(last.creds[3])) =>
        last.transport[1].login = <<last.creds[1], "key", last.creds[3][1]>>

\* C34: every constructed host has exactly one active credential: its own
\* password with the key file cleared, or else the Config's key file and
\* password, of which the password is ignored when there is a key file; no
\* host is constructed without a usable credential.
C34_OneActiveCredential ==
    ahost # <<>> =>
        /\ CredentialsAssigned
        /\ PasswordIgnoredWithKey
        /\ truthy(ahost.ssh_key_filename) \/ truthy(ahost.ssh_password)

\* The same for every host whose own password, if it has one, is not empty.
C34_OneActiveUnlessEmptyPassword ==
    (ahost # <<>> /\ OwnPassword # Some("")) =>
        /\ CredentialsAssigned
        /\ PasswordIgnoredWithKey
        /\ truthy(ahost.ssh_key_filename) \/ truthy(ahost.ssh_password)

\* A host configured with an empty password of its own, under a Config that
\* has a key file: the host was constructed with neither, and the connection
\* attempt found no credentials.
C34_Witness ==
    /\ ahost # <<>>
    /\ OwnPassword = Some("")
    /\ get_opt(conf0, "ssh_key_filename") = Some("~/.ssh/other_key")
    /\ ahost.ssh_key_filename = None
    /\ ahost.ssh_password = Some("")
    /\ last.exc = "RuntimeError"
    /\ last.msg = "No SSH credentials configured"

(***************************************************************************)
(* The address of a loaded host (SpecLoad).                                *)
(***************************************************************************)
\* The host dicts of the configuration that set no external_hostname, by
\* their place: domain d, host k.
NoExternalHostname ==
    {p \in UNION {{<<d, k>> : k \in 1..Len(conf0.domains[d].hosts)} :
                    d \in 1..Len(conf0.domains)} :
        "external_hostname" \notin DOMAIN conf0.domains[p[1]].hosts[p[2]]}

\* C35: a host configured without external_hostname has its hostname as
\* external_hostname, whatever the configured name: without a dot, with a
\* dot, with a trailing dot, with the name of another domain.
C35_ExternalDefaultsToHostname ==
    LoadedUnfiltered =>
        \A p \in NoExternalHostname :
            LET h == config[1].domains[p[1]].hosts[p[2]] IN
                h.external_hostname = h.hostname

\* What holds instead: the external_hostname is the configured name, with
\* the domain's name appended when it has no dot; it is the hostname unless
\* the configured name has a dot and either ends in one or names another
\* domain.
C35_ExternalIsConfiguredName ==
    LoadedUnfiltered =>
        \A p \in NoExternalHostname :
            LET h == config[1].domains[p[1]].hosts[p[2]]
                name == conf0.domains[p[1]].hosts[p[2]].name
                dn == conf0.domains[p[1]].name
            IN  /\ h.external_hostname =
                     IF has_dot(name) THEN name ELSE name \o <<Dot>> \o dn
                /\ (~has_dot(name) \/ name = h.shortname \o <<Dot>> \o dn)
                     => h.external_hostname = h.hostname

\* A host configured as 'm.' was loaded: its hostname is 'm' and its
\* external_hostname 'm.'.
C35_Witness ==
    /\ LoadedUnfiltered
    /\ <<1, 1>> \in NoExternalHostname
    /\ conf0.domains[1].hosts[1].name = <<"m", Dot>>
    /\ config[1].domains[1].hosts[1].hostname = <<"m">>
    /\ config[1].domains[1].hosts[1].external_hostname = <<"m", Dot>>

(***************************************************************************)
(* The matcher over several calls (SpecRefilter, SpecFilterTwice).         *)
(***************************************************************************)
\* The hosts of a list of domains, each with the name of its domain.
HostsIn(doms) ==
    UNION {{<<doms[k].name, doms[k].hosts[p]>> : p \in 1..Len(doms[k].hosts)} :
            k \in 1..Len(doms)}

\* The number of hosts in a list of domains.
RECURSIVE HostCount(_)
HostCount(doms) ==
    IF doms = <<>> THEN 0 ELSE Len(Head(doms).hosts) + HostCount(Tail(doms))

\* C32: after any sequence of filter calls, successful or failed, every
\* domain of config.domains is a domain of the loaded topology, with its
\* name and type; every host of it was a host of that domain at load time;
\* no domain and no host is there twice.
C32_OnlyRemoves ==
    /\ \A k \in 1..Len(domains) :
        \E j \in 1..Len(loaded) :
            /\ loaded[j].name = domains[k].name
            /\ loaded[j].type = domains[k].type
    /\ HostsIn(domains) \subseteq HostsIn(loaded)
    /\ \A k \in 1..Len(domains) : \A h \in 1..Len(domains[k].hosts) :
        domains[k].hosts[h].name[1] = domains[k].name
    /\ Cardinality({domains[k].name : k \in 1..Len(domains)}) = Len(domains)
    /\ Cardinality(HostsIn(domains)) = HostCount(domains)

\* Two calls were made on a topology of two domains with two hosts each:
\* the first left the second domain alone, with both of its hosts, the
\* next succeeded and left one of the two.
C32_Witness ==
    /\ n_filter = 2
    /\ Len(loaded) = 2
    /\ HostCount(loaded) = 4
    /\ Len(domains0) = 1
    /\ Len(domains0[1].hosts) = 2
    /\ outcome.exc = "none"
    /\ Len(domains) = 1
    /\ Len(domains[1].hosts) = 1
    /\ domains0[1].name = 2

\* C36: after a successful filter(D), a second filter with descriptors
\* equal to the original D succeeds and leaves the domain list and every
\* host list as the first call left them.
C36_Idempotent ==
    n_filter = 2 =>
        /\ outcome.exc = "none"
        /\ domains = domains0

\* The second call was made after a first one that dropped a domain and a
\* host and kept two domains, one of them with two hosts of one role.
C36_Witness ==
    /\ n_filter = 2
    /\ outcome.exc = "none"
    /\ domains = domains0
    /\ Len(domains) = 2
    /\ HostCount(loaded) = 4
    /\ HostCount(domains) = 3
    /\ domains[1].name = 2
    /\ \E r \in Roles : descriptions0[1].hosts = [x \in {r} |-> 2]

\* The orders in which n descriptors can be passed.
Orders(n) ==
    {f \in [1..n -> 1..n] : \A a, b \in 1..n : a # b => f[a] # f[b]}

\* C37: with pairwise distinct descriptor types the filter succeeds exactly
\* when every descriptor, taken alone, is suited by a domain of the
\* unfiltered topology; and passed in any other order the descriptors of a
\* successful call get the same domains with the same hosts.
C37_CompleteAndOrderFree ==
    (Called /\ DistinctTypes(descriptions0)) =>
        /\ Succeeded <=> Unsuited = {}
        /\ \A f \in Orders(Len(descriptions0)) :
            LET r == Config_filter(domains0,
                        [j \in 1..Len(descriptions0) |-> descriptions0[f[j]]])
            IN  /\ (r.exc = "none") <=> Succeeded
                /\ Succeeded =>
                    \A j \in 1..Len(descriptions0) :
                        r.domains[j] = domains[f[j]]

\* A successful call of two descriptors that took the second configured
\* domain for the first descriptor and the first for the second, and
\* dropped a host of each.
C37_Witness ==
    /\ Succeeded
    /\ Len(descriptions0) = 2
    /\ DistinctTypes(descriptions0)
    /\ domains[1].name = 2
    /\ domains[2].name = 1
    /\ HostCount(domains0) = 4
    /\ Len(domains[1].hosts) = 1
    /\ Len(domains[2].hosts) = 1

(***************************************************************************)
(* Inline stdin through the extra shell hop (SpecEcho).                    *)
(***************************************************************************)
\* C33: for every byte string b, what the command finds on its stdin after
\* echo -en has been run on the word _echo_quote(b) is exactly b.
C33_EchoRoundTrip ==
    words # None =>
        /\ ~words[1].unterminated
        /\ words[1].stdin = arg

\* The same for every byte string that echo does not take for options.
C33_EchoRoundTripUnlessOption ==
    (words # None /\ ~is_option(arg)) =>
        /\ ~words[1].unterminated
        /\ words[1].stdin = arg

\* A backslash, a NUL byte and a single quote went through unchanged.
C33_Witness ==
    /\ words # None
    /\ arg = <<BS, NUL, SQ>>
    /\ quoted[1] = <<"e", "c", "h", "o", SP, "-", "e", "n", SP,
                     SQ, BS, BS, BS, "x", "0", "0", SQ, BS, SQ, SQ, SQ>>
    /\ words[1].stdin = arg

\* The stdin text '-n' was written as the word '-n', and echo wrote nothing.
C33_WitnessOption ==
    /\ words # None
    /\ arg = <<"-", "n">>
    /\ words[1].stdin = <<>>

ConstructionFailures ==
    {"RuntimeError", "AuthenticationException", "NotImplementedError"}

\* The host was without a Transport when its last command was run, and its
\* credentials were such that a ParamikoTransport can be built with them.
Connectable ==
    /\ transport_class = "paramiko"
    /\ last.creds[2] # None \/ last.creds[3] # None
    /\ KeyFirst(last.creds) \in Authorized

\* C39: a failed connection attempt is not kept.  After it the host has no
\* Transport; the next access builds one from the credentials the host has
\* then, and succeeds if they are right, with no reset_connection in
\* between; and reset_connection on a host without a Transport leaves the
\* host as it is.
C39_FailureNotMemoized ==
    /\ [](/\ last.exc \in ConstructionFailures => ahost._transport = None
          /\ (last.prev \in ConstructionFailures /\ last.exc # "never") =>
                /\ last.fresh
                /\ Connectable =>
                    /\ last.exc = "none"
                    /\ last.transport[1].login = KeyFirst(last.creds)
                    /\ ahost._transport = None \/ ahost._transport = last.transport)
    /\ [][(ahost._transport = None /\ last'.pend_reset /\ ~last.pend_reset) =>
            /\ ahost' = ahost
            /\ n_built' = n_built
            /\ last'.exc = last.exc]_vars

\* The host had no credentials and the connection failed; the test set the
\* password and ran the next command, with no reset_connection in between:
\* the connection was made with the password.
C39_Witness ==
    /\ transport_class = "paramiko"
    /\ last.prev = "RuntimeError"
    /\ ~last.was_reset
    /\ last.fresh
    /\ last.exc = "none"
    /\ last.creds = <<"root", Some("Secret123"), None>>
    /\ ahost._transport = last.transport

\* reset_connection was called on a host whose connection attempt had
\* failed, and the host is as it was.
C39_WitnessReset ==
    /\ last.exc = "AuthenticationException"
    /\ last.pend_reset
    /\ ahost._transport = None
    /\ Credentials(ahost) = last.creds

=============================================================================
